---------------------------- MODULE Spec2Model ----------------------------
(***************************************************************************)
(* Model of the pageflow page server (src/src/SimplePageServer.ts), its    *)
(* per-page recorder (src/src/SimplePage.ts) and the DOM settle wait       *)
(* (SimplePage._waitForSettledDom).                                        *)
(*                                                                         *)
(* Node.js runs one handler segment at a time: a segment is the code       *)
(* between two awaits of an async function.  Every action below is one     *)
(* such segment; the driver (Playwright / CDP) decides when an await       *)
(* returns and whether it succeeds.                                        *)
(*                                                                         *)
(*   Spec        the HTTP server, the recorder and the broadcaster         *)
(*   SettleSpec  _waitForSettledDom with its timers and CDP events         *)
(*   PairSpec    two overlapping calls of _waitForSettledDom               *)
(*   ReplaySpec  replay() of a recorded trace (src/unnamed/part_001)       *)
(*   ServeSpec   the endpoint that serves the files of a recording         *)
(*   FanoutSpec  the broadcaster with subscribers whose connection breaks  *)
(*   RegistrySpec   the frame-ordinal registry of a page                   *)
(*   ConditionSpec  SimplePage.checkCondition and its RegExp argument      *)
(*   ActSpec        the method dispatch of SimplePage.actByXPath            *)
(*   PostScriptSpec the post-scripts of a recorded action                  *)
(***************************************************************************)
EXTENDS Integers, Sequences, FiniteSets, TLC

VARIABLES
  \* ---- SimplePageServer / SimplePage (Spec) ----
  reqs,             \* HTTP requests: position of each handler and its locals
  nextReq,          \* number of the next request to arrive
  nextPage,         \* next page id uuid() hands out
  pages,            \* keys of SimplePageServer.pages
  browser,          \* driver state of each playwright page
  recOn,            \* SimplePage.recordingEnabled (onAction is set iff TRUE)
  hasState,         \* SimplePage.pageState !== null
  mem,              \* SimplePage.pageState.actions
  dirExists,        \* <tmp>/simplepage/<id>/ exists
  disk,             \* actions of <tmp>/simplepage/<id>/actions.json
  files,            \* snapshot files under <tmp>/simplepage/<id>/data/
  wsClients,        \* SimplePageServer.wsClients
  sent,             \* messages ws.send() handed to each subscriber, in order
  joined,           \* the last page id allocated before the subscriber connected
  globalMap,        \* global.__simplepage_xpath_map: the snapshot it came from
  snapVer,          \* number of snapshots getPageStructure took of each page
  now,              \* Date.now()
  hist,             \* arrivals and replies of requests, in order
  enableScreenshot, \* process.env.SCREENSHOT === 'true'
  \* ---- _waitForSettledDom (SettleSpec) ----
  wait,             \* the calls of _waitForSettledDom: closures and timers
  net,              \* requests the browser has in flight
  clock,            \* time in ms
  netQuiet,         \* ms without a non-streaming request in flight (<= 500)
  resolutions,      \* resolve() calls of each wait's promise
  \* ---- replay (ReplaySpec) ----
  replay,           \* a call of replay(): its arguments, locals and result
  \* ---- GET /api/recordings/:recordingId/files/:filename (ServeSpec) ----
  serve,            \* the last request for a recording file and its answer
  \* ---- the sockets of the subscribers (FanoutSpec) ----
  broken,           \* for a connection that broke: the messages handed to it before
  \* ---- the frame registry of a SimplePage (RegistrySpec) ----
  registry,         \* fidOrdinals, rootFrameId and the browser's top frame
  \* ---- SimplePage.checkCondition (ConditionSpec) ----
  cond,             \* the structure, the caller's RegExp object and the answers
  \* ---- SimplePage.actByXPath (ActSpec) ----
  surface,          \* scroll positions of the window and of an element, last call
  \* ---- src/utils/postScript.ts (PostScriptSpec) ----
  scripts           \* a live page's action list, its actions.json and the last run

serverVars == <<reqs, nextReq, nextPage, pages, browser, recOn, hasState, mem,
                dirExists, disk, files, wsClients, sent, joined, globalMap,
                snapVer, now, hist, enableScreenshot>>
settleVars == <<wait, net, clock, netQuiet, resolutions>>
sideVars == <<replay, serve, broken, registry, cond, surface, scripts>>
nonReplayVars == <<serverVars, settleVars, serve, broken, registry, cond, surface, scripts>>
nonServeVars == <<serverVars, settleVars, replay, broken, registry, cond, surface, scripts>>
nonBrokenVars == <<serverVars, settleVars, replay, serve, registry, cond, surface, scripts>>
nonRegistryVars == <<serverVars, settleVars, replay, serve, broken, cond, surface, scripts>>
nonCondVars == <<serverVars, settleVars, replay, serve, broken, registry, surface, scripts>>
nonSurfaceVars == <<serverVars, settleVars, replay, serve, broken, registry, cond, scripts>>
nonScriptsVars == <<serverVars, settleVars, replay, serve, broken, registry, cond, surface>>
vars == <<serverVars, settleVars, sideVars>>

----------------------------------------------------------------------------
\* Bounds of the model
MaxReqs  == 3
MaxPages == 2
MaxSubs  == 1
MaxNow   == 1

\* Bounds of the settle model: time advances in steps of TickMs up to MaxClock
MaxWaits   == 1
MaxNetReqs == 2
MaxFrames  == 1
TickMs     == 500
MaxClock   == 3500
ShortTimeoutMs == 1000
LongTimeoutMs  == 3500

\* Bounds of the model of overlapping waits: calls that may overlap and the
\* requests the browser sends meanwhile
MaxCalls    == 2
PairNetReqs == 1

\* Bounds of the broadcaster model: the sockets that may connect and the
\* requests made while they are connected
MaxClients    == 2
MaxFanoutReqs == 2

\* Bounds of the registry model: calls of resetFrameOrdinals and the
\* backend node ids of a frame
MaxResets     == 2
MaxBackendIds == 2

\* Bound of the replay model: the longest trace replayed
MaxTrace == 3

\* Bound of the file endpoint: the most path segments in a decoded filename
MaxDepth == 3

\* Bounds of the act model: the extent of a scrollable surface and of its
\* viewport in pixels, and the characters of an argument
ScrollExtent == 3
ClientExtent == 1
MaxArg       == 2

\* Bounds of the post-script model: recorded actions and added scripts
MaxRecorded == 2
MaxAdded    == 3

\* Bounds of the condition model: the length of the simplified structure
\* and of a pattern, and the calls of checkCondition
MaxStructure == 2
MaxSource    == 2
MaxChecks    == 3

\* _waitForSettledDom: the quiet window, the period of the stall sweep and
\* the age from which the sweep drops a request
QuietWindowMs == 500
SweepPeriodMs == 500
StallAgeMs    == 2000

Calls    == 1..MaxCalls
Waits    == 1..MaxWaits
NetIds   == 1..MaxNetReqs
PairNetIds == 1..PairNetReqs
Frames   == 1..MaxFrames
Timeouts == {ShortTimeoutMs, LongTimeoutMs}
PairTimeouts == {ShortTimeoutMs}
NoTimer  == -1

Reqs    == 1..MaxReqs
PageIds == 1..MaxPages
Subs    == 1..MaxSubs
Clients == 1..MaxClients
FanoutReqs == 1..MaxFanoutReqs

MaxIdx   == 1

\* the global xpath map before any snapshot was taken (undefined)
NoMap  == [page |-> 0, ver |-> 0]
\* an action that references no snapshot file (close)
NoFile == -1
\* a subscriber that has not connected yet
NotJoined == -1
\* a connection that is intact
NotBroken == -1

Kinds == {"create", "navigate", "actId", "structure", "condition", "extract",
          "close", "deleteAction", "deleteRecords"}

IdleReq == [kind |-> "none", page |-> 0, pc |-> "idle", act |-> "none",
            ts |-> 0, fts |-> NoFile, lf |-> NoFile, status |-> "none",
            via |-> NoMap, latest |-> NoMap]

Min(a, b) == IF a < b THEN a ELSE b

\* positions of the actions of a type in an action list
Positions(list, type) == {i \in 1..Len(list) : list[i].type = type}

\* Array.prototype.splice(index, 1), index counted from 0
Splice(seq, index) ==
  [i \in 1..(Len(seq) - 1) |-> IF i <= index THEN seq[i] ELSE seq[i + 1]]

----------------------------------------------------------------------------
\* SimplePageServer.broadcast: every open client gets the message
Msg(type, p, r, atype) == [type |-> type, page |-> p, req |-> r, atype |-> atype]

\* a forEach that a failing send ends: the clients after it get nothing
BroadcastUntilBroken(out, m) ==
  [s \in Clients |->
     IF s \in wsClients /\ \A t \in wsClients : t < s => broken[t] = NotBroken
     THEN Append(out[s], m) ELSE out[s]]

\* broadcast: ws.send(message) for every client whose readyState is OPEN
Broadcast(out, m) ==
  [s \in Clients |-> IF s \in wsClients THEN Append(out[s], m) ELSE out[s]]

\* a recorder that puts the new action in front of the list
PushActionFront(list, a) == <<a>> \o list

\* recordAction: this.pageState.actions.push(fullAction)
PushAction(list, a) == Append(list, a)

\* the reply of a handler: res.json / res.status(..).json
Done(q, st) ==
  [kind |-> q.kind, page |-> q.page, pc |-> "done", act |-> "none", ts |-> 0,
   fts |-> NoFile, lf |-> NoFile, status |-> st, via |-> q.via,
   latest |-> q.latest]

Returned(r) == Append(hist, <<"return", r>>)

\* the files saveSnapshot writes for one action
SnapshotFiles(p, fts) == {<<p, "structure", fts>>, <<p, "xpath", fts>>}

\* the files deleteAction unlinks for an action of a live page
FilesOfAction(p, a) ==
  {<<p, "screenshot", a.fts>>, <<p, "structure", a.fts>>, <<p, "xpath", a.fts>>,
   <<p, "list", a.lf>>}

\* the files the closed-recording path of DELETE .../actions/:idx unlinks
FilesOfClosedAction(p, a) ==
  {<<p, "screenshot", a.fts>>, <<p, "xpath", a.fts>>, <<p, "list", a.lf>>}

----------------------------------------------------------------------------
\* `let pageId: string | null = null` of replay()
NullPage == 0

\* no call of replay() yet.  created counts the pages the service created
\* for this replay (their ids are 1..created), closeIssued holds the ids a
\* close request was sent for, recorded is what the service recorded for them
IdleReplay ==
  [pc |-> "idle", actions |-> <<>>, continueOnError |-> FALSE, delay |-> FALSE,
   i |-> 0, pageId |-> NullPage, success |-> TRUE, executedActions |-> 0,
   errors |-> <<>>, attempted |-> <<>>,
   created |-> 0, closeIssued |-> {}, recorded |-> <<>>]

\* fid === undefined
Undefined == "undefined"

\* a SimplePage before init(): fidOrdinals holds undefined -> 0.  top is the
\* id of the browser's top frame, order the real frame ids in the order of
\* their first sighting since the last reset, encoded the ids handed out
\* since then, stale whether a navigation changed the top frame since then,
\* sightedStale whether an ordinal was asked for while stale
NewRegistry ==
  [pc |-> "new", fidOrdinals |-> [f \in {Undefined} |-> 0], rootFrameId |-> Undefined,
   top |-> "A", order |-> <<>>, encoded |-> {}, stale |-> FALSE, resets |-> 0,
   sightedStale |-> FALSE]

\* the window and one element, both scrolled to their origin, and no call of
\* actByXPath yet
NoAct ==
  [body |-> [top |-> 0, left |-> 0], el |-> [top |-> 0, left |-> 0],
   last |-> [target |-> "none", method |-> "none", arg |-> <<>>, call |-> "none",
             before |-> [top |-> 0, left |-> 0]]]

\* a live recording page without actions: actions.json holds the empty list
\* (mem is pageState.actions, disk the actions of actions.json, attached the
\* scripts added to an action and not removed since), and no call yet
NoScripts ==
  [live |-> TRUE, mem |-> <<>>, disk |-> <<>>, recorded |-> 0, added |-> 0,
   attached |-> {},
   last |-> [call |-> "none", actionIndex |-> 0, scriptIndex |-> 0,
             outcome |-> "none", ran |-> 0]]

\* no page structure, no RegExp object and no answer yet
NoCondition ==
  [structure |-> <<>>, regex |-> [source |-> <<>>, flags |-> "", lastIndex |-> 0],
   answers |-> {}, checks |-> 0]

\* no request for a recording file yet
IdleServe ==
  [pc |-> "idle", recordingId |-> <<>>, filename |-> <<>>, exists |-> FALSE,
   status |-> 0, sent |-> <<>>]

\* Initial state of the server: no page, no request, no subscriber
ServerInit ==
  /\ replay = IdleReplay
  /\ serve = IdleServe
  /\ broken = [s \in Clients |-> NotBroken]
  /\ registry = NewRegistry
  /\ cond = NoCondition
  /\ surface = NoAct
  /\ scripts = NoScripts
  /\ reqs = [r \in Reqs |-> IdleReq]
  /\ nextReq = 1
  /\ nextPage = 1
  /\ pages = {}
  /\ browser = [p \in PageIds |-> "none"]
  /\ recOn = [p \in PageIds |-> FALSE]
  /\ hasState = [p \in PageIds |-> FALSE]
  /\ mem = [p \in PageIds |-> <<>>]
  /\ dirExists = [p \in PageIds |-> FALSE]
  /\ disk = [p \in PageIds |-> [exists |-> FALSE, actions |-> <<>>]]
  /\ files = {}
  /\ wsClients = {}
  /\ sent = [s \in Clients |-> <<>>]
  /\ joined = [s \in Clients |-> NotJoined]
  /\ globalMap = NoMap
  /\ snapVer = [p \in PageIds |-> 0]
  /\ now = 0
  /\ hist = <<>>
  /\ enableScreenshot \in BOOLEAN

\* the page ids a client can address: a uuid is known outside the server only
\* once the create request was answered with it or a broadcast carried it
Known ==
  {p \in PageIds :
     \/ \E r \in Reqs : reqs[r].kind = "create" /\ reqs[r].page = p /\ reqs[r].status = "ok"
     \/ \E s \in Clients : \E i \in 1..Len(sent[s]) : sent[s][i].page = p}

\* a request arrives: its handler runs up to its first await
Arrives(r) ==
  /\ r = nextReq
  /\ reqs[r].pc = "idle"
  /\ nextReq' = r + 1

Started(kind, p) == [IdleReq EXCEPT !.kind = kind, !.page = p]

Arrived(r) == Append(hist, <<"arrive", r>>)

ArrivedReturned(r) == Append(Arrived(r), <<"return", r>>)

\* a handler that finds no pageInfo answers at once
NotFound(r, kind, p) ==
  /\ reqs' = [reqs EXCEPT ![r] = Done(Started(kind, p), "notfound")]
  /\ hist' = ArrivedReturned(r)

\* recordAction up to the await of getPageStructure in saveSnapshot:
\* fullAction.timestamp = Date.now(), then saveSnapshot's own Date.now()
\* names the files.  The clock may have moved on between the two reads.
BeginRecord(q, atype, ts, fts) ==
  [q EXCEPT !.pc = "snap", !.act = atype, !.ts = ts, !.fts = fts]

ClockReads == {t \in (now..Min(now + 1, MaxNow)) \X (now..MaxNow) :
                 t[1] <= t[2] /\ t[2] <= t[1] + 1}

\* WebSocketServer 'connection' (subscribers connect before the first request
\* of the run) and the socket's 'close' / 'error'
WsConnect(s) ==
  /\ UNCHANGED <<settleVars, sideVars>>
  /\ joined[s] = NotJoined
  /\ nextReq = 1
  /\ wsClients' = wsClients \cup {s}
  /\ joined' = [joined EXCEPT ![s] = nextPage - 1]
  /\ UNCHANGED <<reqs, nextReq, nextPage, pages, browser, recOn, hasState, mem,
                 dirExists, disk, files, sent, globalMap, snapVer, now, hist,
                 enableScreenshot>>

WsClose(s) ==
  /\ UNCHANGED <<settleVars, sideVars>>
  /\ s \in wsClients
  /\ wsClients' = wsClients \ {s}
  /\ UNCHANGED <<reqs, nextReq, nextPage, pages, browser, recOn, hasState, mem,
                 dirExists, disk, files, sent, joined, globalMap, snapVer, now,
                 hist, enableScreenshot>>

\* a constructor that runs initializePageState whatever recordActions says
CreatePageAlwaysInitialized(r, rec) ==
  /\ UNCHANGED <<settleVars, sideVars>>
  /\ LET p == nextPage
     IN /\ Arrives(r)
        /\ nextPage <= MaxPages
        /\ nextPage' = nextPage + 1
        /\ reqs' = [reqs EXCEPT ![r] = [Started("create", p) EXCEPT !.pc = "init"]]
        /\ recOn' = [recOn EXCEPT ![p] = rec]
        /\ hist' = Arrived(r)
        /\ browser' = [browser EXCEPT ![p] = "open"]
        /\ hasState' = [hasState EXCEPT ![p] = TRUE]
        /\ dirExists' = [dirExists EXCEPT ![p] = TRUE]
        /\ disk' = [disk EXCEPT ![p] = [exists |-> TRUE, actions |-> <<>>]]
        /\ UNCHANGED <<pages, mem, files, wsClients, sent, joined, globalMap,
                       snapVer, now, enableScreenshot>>

\* POST /api/pages -> createPage: uuid(), persistentContext.newPage(), then
\* new SimplePage(...) runs initializePageState when recording is on (fresh
\* uuid: no actions.json yet, so it seeds and saves an empty list) and
\* setOnAction; init() then awaits its CDP calls.  The await of newPage() is
\* folded into this step: the id is not known to anyone before init() ends.
CreatePage(r, rec) ==
  /\ UNCHANGED <<settleVars, sideVars>>
  /\ LET p == nextPage
     IN /\ Arrives(r)
        /\ nextPage <= MaxPages
        /\ nextPage' = nextPage + 1
        /\ reqs' = [reqs EXCEPT ![r] = [Started("create", p) EXCEPT !.pc = "init"]]
        /\ recOn' = [recOn EXCEPT ![p] = rec]
        /\ hist' = Arrived(r)
        /\ browser' = [browser EXCEPT ![p] = "open"]
        /\ hasState' = [hasState EXCEPT ![p] = rec]
        /\ dirExists' = [dirExists EXCEPT ![p] = rec]
        /\ disk' = [disk EXCEPT ![p] = [exists |-> rec, actions |-> <<>>]]
        /\ UNCHANGED <<pages, mem, files, wsClients, sent, joined, globalMap,
                       snapVer, now, enableScreenshot>>

\* init(): the CDP calls returned; with a pageState it records 'create',
\* otherwise createPage goes on to navigate (page.goto)
InitDone(r) ==
  /\ UNCHANGED <<settleVars, sideVars>>
  /\ LET q == reqs[r]
         p == q.page
     IN /\ q.pc = "init"
        /\ IF hasState[p] /\ recOn[p]
           THEN \E t \in ClockReads :
                  /\ reqs' = [reqs EXCEPT ![r] = BeginRecord(q, "create", t[1], t[2])]
                  /\ now' = t[2]
           ELSE /\ reqs' = [reqs EXCEPT ![r].pc = "driver", ![r].act = "navigate"]
                /\ now' = now
        /\ UNCHANGED <<nextReq, nextPage, pages, browser, recOn, hasState, mem,
                       dirExists, disk, files, wsClients, sent, joined, globalMap,
                       snapVer, hist, enableScreenshot>>

\* POST /api/pages/:pageId/navigate (navigate-back, navigate-forward and
\* reload have the same shape): pages.get, then await page.goto
Navigate(r, p) ==
  /\ UNCHANGED <<settleVars, sideVars>>
  /\ Arrives(r)
  /\ IF p \notin pages
     THEN NotFound(r, "navigate", p)
     ELSE /\ reqs' = [reqs EXCEPT ![r] =
                        [Started("navigate", p) EXCEPT !.pc = "driver", !.act = "navigate"]]
          /\ hist' = Arrived(r)
  /\ UNCHANGED <<nextPage, pages, browser, recOn, hasState, mem, dirExists, disk,
                 files, wsClients, sent, joined, globalMap, snapVer, now,
                 enableScreenshot>>

\* POST /api/pages/:pageId/act-id -> actByEncodedId: the xpath is looked up in
\* global.__simplepage_xpath_map, then actByXPath awaits the locator call
ActById(r, p) ==
  /\ UNCHANGED <<settleVars, sideVars>>
  /\ Arrives(r)
  /\ IF p \notin pages
     THEN NotFound(r, "actId", p)
     ELSE IF globalMap = NoMap
     THEN /\ reqs' = [reqs EXCEPT ![r] = Done(Started("actId", p), "error")]
          /\ hist' = ArrivedReturned(r)
     ELSE \E found \in BOOLEAN :
            IF found
            THEN /\ reqs' = [reqs EXCEPT ![r] =
                               [Started("actId", p) EXCEPT
                                  !.pc = "driver", !.act = "act", !.via = globalMap,
                                  !.latest = [page |-> p, ver |-> snapVer[p]]]]
                 /\ hist' = Arrived(r)
            ELSE /\ reqs' = [reqs EXCEPT ![r] = Done(Started("actId", p), "error")]
                 /\ hist' = ArrivedReturned(r)
  /\ UNCHANGED <<nextPage, pages, browser, recOn, hasState, mem, dirExists, disk,
                 files, wsClients, sent, joined, globalMap, snapVer, now,
                 enableScreenshot>>

\* GET /api/pages/:pageId/structure: await getPageStructure
GetStructure(r, p) ==
  /\ UNCHANGED <<settleVars, sideVars>>
  /\ Arrives(r)
  /\ IF p \notin pages
     THEN NotFound(r, "structure", p)
     ELSE /\ reqs' = [reqs EXCEPT ![r] = [Started("structure", p) EXCEPT !.pc = "struct"]]
          /\ hist' = Arrived(r)
  /\ UNCHANGED <<nextPage, pages, browser, recOn, hasState, mem, dirExists, disk,
                 files, wsClients, sent, joined, globalMap, snapVer, now,
                 enableScreenshot>>

\* POST /api/pages/:pageId/condition -> checkCondition: await getPageStructure
Condition(r, p) ==
  /\ UNCHANGED <<settleVars, sideVars>>
  /\ Arrives(r)
  /\ IF p \notin pages
     THEN NotFound(r, "condition", p)
     ELSE /\ reqs' = [reqs EXCEPT ![r] =
                        [Started("condition", p) EXCEPT !.pc = "struct", !.act = "condition"]]
          /\ hist' = Arrived(r)
  /\ UNCHANGED <<nextPage, pages, browser, recOn, hasState, mem, dirExists, disk,
                 files, wsClients, sent, joined, globalMap, snapVer, now,
                 enableScreenshot>>

\* POST /api/pages/:pageId/get-list-html -> getListHtml: await page.evaluate
\* (get-list-html-by-parent and get-element-html have the same shape)
Extract(r, p) ==
  /\ UNCHANGED <<settleVars, sideVars>>
  /\ Arrives(r)
  /\ IF p \notin pages
     THEN NotFound(r, "extract", p)
     ELSE /\ reqs' = [reqs EXCEPT ![r] =
                        [Started("extract", p) EXCEPT !.pc = "eval", !.act = "getListHtml"]]
          /\ hist' = Arrived(r)
  /\ UNCHANGED <<nextPage, pages, browser, recOn, hasState, mem, dirExists, disk,
                 files, wsClients, sent, joined, globalMap, snapVer, now,
                 enableScreenshot>>

\* getListHtml: page.evaluate returned; mkdirSync(dataDir, {recursive}), the
\* list file is written under the name of Date.now(), then
\* `if (this.pageState) await this.recordAction`
EvalDone(r) ==
  /\ UNCHANGED <<settleVars, sideVars>>
  /\ LET q == reqs[r]
         p == q.page
         listed == [q EXCEPT !.lf = now]
     IN /\ q.pc = "eval"
        /\ browser[p] = "open"
        /\ dirExists' = [dirExists EXCEPT ![p] = TRUE]
        /\ files' = files \cup {<<p, "list", now>>}
        /\ IF hasState[p]
           THEN \E t \in ClockReads :
                  /\ reqs' = [reqs EXCEPT ![r] = BeginRecord(listed, "getListHtml", t[1], t[2])]
                  /\ now' = t[2]
                  /\ hist' = hist
           ELSE /\ reqs' = [reqs EXCEPT ![r] = Done(listed, "ok")]
                /\ hist' = Returned(r)
                /\ now' = now
        /\ UNCHANGED <<nextReq, nextPage, pages, browser, recOn, hasState, mem,
                       disk, wsClients, sent, joined, globalMap, snapVer,
                       enableScreenshot>>

\* DELETE /api/pages/:pageId -> closePage: recordClose appends 'close' without
\* a snapshot (no await before the push), then page.close() is awaited
ClosePage(r, p) ==
  /\ UNCHANGED <<settleVars, sideVars>>
  /\ Arrives(r)
  /\ IF p \notin pages
     THEN /\ reqs' = [reqs EXCEPT ![r] = Done(Started("close", p), "error")]
          /\ hist' = ArrivedReturned(r)
          /\ UNCHANGED <<mem, disk, sent, now>>
     ELSE /\ reqs' = [reqs EXCEPT ![r] = [Started("close", p) EXCEPT !.pc = "closing"]]
          /\ hist' = Arrived(r)
          /\ IF hasState[p] /\ recOn[p]
             THEN \E ts \in now..Min(now + 1, MaxNow) :
                    LET a == [type |-> "close", ts |-> ts, fts |-> NoFile, lf |-> NoFile,
                             req |-> r]
                    IN /\ now' = ts
                       /\ mem' = [mem EXCEPT ![p] = PushAction(@, a)]
                       /\ disk' = [disk EXCEPT ![p] =
                                     [exists |-> TRUE, actions |-> PushAction(mem[p], a)]]
                       /\ sent' = Broadcast(sent, Msg("action-recorded", p, r, "close"))
             ELSE UNCHANGED <<mem, disk, sent, now>>
  /\ UNCHANGED <<nextPage, pages, browser, recOn, hasState, dirExists, files,
                 wsClients, joined, globalMap, snapVer, enableScreenshot>>

\* page.close() returned: this.pages.delete(pageId), res.json
CloseDone(r) ==
  /\ UNCHANGED <<settleVars, sideVars>>
  /\ LET q == reqs[r]
         p == q.page
     IN /\ q.pc = "closing"
        /\ browser' = [browser EXCEPT ![p] = "closed"]
        /\ pages' = pages \ {p}
        /\ reqs' = [reqs EXCEPT ![r] = Done(q, "ok")]
        /\ hist' = Returned(r)
        /\ UNCHANGED <<nextReq, nextPage, recOn, hasState, mem, dirExists, disk,
                       files, wsClients, sent, joined, globalMap, snapVer, now,
                       enableScreenshot>>

\* parseInt(actionIndex) of a path segment without a leading digit
NaNIndex == -2

\* the values of parseInt(actionIndex)
Indexes == {NaNIndex, -1} \cup (0..MaxIdx)

\* index is a position of a list of n entries; every comparison with NaN is
\* false, so NaN passes `index < 0 || index >= n`
InRange(idx, n) == idx # NaNIndex /\ 0 <= idx /\ idx < n

\* DELETE /api/pages/:pageId/actions/:actionIndex: SimplePage.deleteAction for
\* a page of the map, otherwise the handler edits actions.json itself.  With
\* NaN, deleteAction throws at actionToDelete.screenshot inside its try and
\* returns false; the handler's own code has already done splice(NaN, 1),
\* which removes the first entry, and written the file when it throws there
DeleteAction(r, p, idx) ==
  /\ UNCHANGED <<settleVars, sideVars>>
  /\ Arrives(r)
  /\ hist' = ArrivedReturned(r)
  /\ IF p \in pages
     THEN IF hasState[p] /\ InRange(idx, Len(mem[p]))
          THEN /\ files' = files \ FilesOfAction(p, mem[p][idx + 1])
               /\ mem' = [mem EXCEPT ![p] = Splice(@, idx)]
               /\ disk' = [disk EXCEPT ![p] =
                             [exists |-> TRUE, actions |-> Splice(mem[p], idx)]]
               /\ reqs' = [reqs EXCEPT ![r] = Done(Started("deleteAction", p), "ok")]
          ELSE /\ reqs' = [reqs EXCEPT ![r] = Done(Started("deleteAction", p), "error")]
               /\ UNCHANGED <<files, mem, disk>>
     ELSE IF ~disk[p].exists
          THEN /\ reqs' = [reqs EXCEPT ![r] = Done(Started("deleteAction", p), "notfound")]
               /\ UNCHANGED <<files, mem, disk>>
          ELSE IF idx = NaNIndex
          THEN /\ disk' = [disk EXCEPT ![p].actions = Splice(@, 0)]
               /\ reqs' = [reqs EXCEPT ![r] = Done(Started("deleteAction", p), "error")]
               /\ UNCHANGED <<files, mem>>
          ELSE IF InRange(idx, Len(disk[p].actions))
          THEN /\ disk' = [disk EXCEPT ![p].actions = Splice(@, idx)]
               /\ files' = files \ FilesOfClosedAction(p, disk[p].actions[idx + 1])
               /\ reqs' = [reqs EXCEPT ![r] = Done(Started("deleteAction", p), "ok")]
               /\ mem' = mem
          ELSE /\ reqs' = [reqs EXCEPT ![r] = Done(Started("deleteAction", p), "error")]
               /\ UNCHANGED <<files, mem, disk>>
  /\ UNCHANGED <<nextPage, pages, browser, recOn, hasState, dirExists, wsClients,
                 sent, joined, globalMap, snapVer, now, enableScreenshot>>

\* DELETE /api/pages/:pageId/records: SimplePage.deleteAllRecords and
\* pages.delete for a page of the map, otherwise fs.rmSync of the directory
DeleteRecords(r, p) ==
  /\ UNCHANGED <<settleVars, sideVars>>
  /\ Arrives(r)
  /\ hist' = ArrivedReturned(r)
  /\ IF p \in pages
     THEN IF recOn[p]
          THEN /\ dirExists' = [dirExists EXCEPT ![p] = FALSE]
               /\ disk' = [disk EXCEPT ![p] = [exists |-> FALSE, actions |-> <<>>]]
               /\ files' = {f \in files : f[1] # p}
               /\ hasState' = [hasState EXCEPT ![p] = FALSE]
               /\ pages' = pages \ {p}
               /\ reqs' = [reqs EXCEPT ![r] = Done(Started("deleteRecords", p), "ok")]
          ELSE /\ reqs' = [reqs EXCEPT ![r] = Done(Started("deleteRecords", p), "error")]
               /\ UNCHANGED <<dirExists, disk, files, hasState, pages>>
     ELSE IF ~dirExists[p]
          THEN /\ reqs' = [reqs EXCEPT ![r] = Done(Started("deleteRecords", p), "notfound")]
               /\ UNCHANGED <<dirExists, disk, files, hasState, pages>>
          ELSE /\ dirExists' = [dirExists EXCEPT ![p] = FALSE]
               /\ disk' = [disk EXCEPT ![p] = [exists |-> FALSE, actions |-> <<>>]]
               /\ files' = {f \in files : f[1] # p}
               /\ reqs' = [reqs EXCEPT ![r] = Done(Started("deleteRecords", p), "ok")]
               /\ UNCHANGED <<hasState, pages>>
  /\ UNCHANGED <<nextPage, browser, recOn, mem, wsClients, sent, joined,
                 globalMap, snapVer, now, enableScreenshot>>

\* a handler that records as soon as the driver call returns
DriverDoneSkipsSettle(r) ==
  /\ UNCHANGED <<settleVars, sideVars>>
  /\ LET q == reqs[r]
     IN /\ q.pc = "driver"
        /\ browser[q.page] = "open"
        /\ reqs' = [reqs EXCEPT ![r] = BeginRecord(q, q.act, now, now)]
        /\ UNCHANGED <<nextReq, nextPage, pages, browser, recOn, hasState, mem,
                       dirExists, disk, files, wsClients, sent, joined, globalMap,
                       snapVer, now, hist, enableScreenshot>>

----------------------------------------------------------------------------
\* the awaited driver call of navigate / actByXPath returned: the handler goes
\* on to await _waitForSettledDom
DriverDone(r) ==
  /\ UNCHANGED <<settleVars, sideVars>>
  /\ LET q == reqs[r]
     IN /\ q.pc = "driver"
        /\ browser[q.page] = "open"
        /\ reqs' = [reqs EXCEPT ![r].pc = "settle"]
        /\ UNCHANGED <<nextReq, nextPage, pages, browser, recOn, hasState, mem,
                       dirExists, disk, files, wsClients, sent, joined, globalMap,
                       snapVer, now, hist, enableScreenshot>>

\* a handler that records the failed operation before it answers 500
DriverThrowsRecorded(r) ==
  /\ UNCHANGED <<settleVars, sideVars>>
  /\ LET q == reqs[r]
         p == q.page
         a == [type |-> q.act, ts |-> now, fts |-> NoFile, lf |-> NoFile, req |-> r]
     IN /\ q.pc \in {"init", "driver", "settle", "struct", "eval", "snap", "shot"}
        /\ reqs' = [reqs EXCEPT ![r] = Done(q, "error")]
        /\ hist' = Returned(r)
        /\ mem' = [mem EXCEPT ![p] = PushAction(@, a)]
        /\ disk' = [disk EXCEPT ![p] = [exists |-> TRUE, actions |-> PushAction(mem[p], a)]]
        /\ UNCHANGED <<nextReq, nextPage, pages, browser, recOn, hasState,
                       dirExists, files, wsClients, sent, joined, globalMap,
                       snapVer, now, enableScreenshot>>

\* an awaited driver call threw (element missing, timeout, page closed): the
\* error propagates to the handler's catch, which answers 500
DriverThrows(r) ==
  /\ UNCHANGED <<settleVars, sideVars>>
  /\ LET q == reqs[r]
     IN /\ q.pc \in {"init", "driver", "settle", "struct", "eval", "snap", "shot"}
        /\ reqs' = [reqs EXCEPT ![r] = Done(q, "error")]
        /\ hist' = Returned(r)
        /\ UNCHANGED <<nextReq, nextPage, pages, browser, recOn, hasState, mem,
                       dirExists, disk, files, wsClients, sent, joined, globalMap,
                       snapVer, now, enableScreenshot>>

\* the end of a handler that recorded nothing more: createPage registers the
\* page and broadcasts page-created, every handler sends its reply; the
\* get-list-html handler reads the list file back first (readFileSync)
Finish(r, out) ==
  LET q == reqs[r]
      p == q.page
      st == IF q.kind = "extract" /\ <<p, "list", q.lf>> \notin files
            THEN "error" ELSE "ok"
  IN /\ reqs' = [reqs EXCEPT ![r] = Done(q, st)]
     /\ hist' = Returned(r)
     /\ IF q.kind = "create"
        THEN /\ pages' = pages \cup {p}
             /\ sent' = IF recOn[p]
                        THEN Broadcast(out, Msg("page-created", p, r, "none"))
                        ELSE out
        ELSE /\ pages' = pages
             /\ sent' = out

\* _waitForSettledDom resolved: `if (this.pageState) await this.recordAction`
SettleDone(r) ==
  /\ UNCHANGED <<settleVars, sideVars>>
  /\ LET q == reqs[r]
         p == q.page
     IN /\ q.pc = "settle"
        /\ browser[p] = "open"
        /\ IF hasState[p]
           THEN \E t \in ClockReads :
                  /\ reqs' = [reqs EXCEPT ![r] = BeginRecord(q, q.act, t[1], t[2])]
                  /\ now' = t[2]
                  /\ UNCHANGED <<pages, sent, hist>>
           ELSE /\ Finish(r, sent)
                /\ now' = now
        /\ UNCHANGED <<nextReq, nextPage, browser, recOn, hasState, mem, dirExists,
                       disk, files, wsClients, joined, globalMap, snapVer,
                       enableScreenshot>>

\* getPageStructure returned to GET /structure or to checkCondition: the
\* result's xpathMap is stored in the global
StructDone(r) ==
  /\ UNCHANGED <<settleVars, sideVars>>
  /\ LET q == reqs[r]
         p == q.page
     IN /\ q.pc = "struct"
        /\ browser[p] = "open"
        /\ snapVer' = [snapVer EXCEPT ![p] = @ + 1]
        /\ globalMap' = [page |-> p, ver |-> snapVer[p] + 1]
        /\ IF q.kind = "condition" /\ hasState[p]
           THEN \E t \in ClockReads :
                  /\ reqs' = [reqs EXCEPT ![r] = BeginRecord(q, "condition", t[1], t[2])]
                  /\ now' = t[2]
                  /\ hist' = hist
           ELSE /\ reqs' = [reqs EXCEPT ![r] = Done(q, "ok")]
                /\ hist' = Returned(r)
                /\ now' = now
        /\ UNCHANGED <<nextReq, nextPage, pages, browser, recOn, hasState, mem,
                       dirExists, disk, files, wsClients, sent, joined,
                       enableScreenshot>>

\* a recorder that calls onAction before it saves the list
FinishRecordAnnouncesFirst(r) ==
  LET q == reqs[r]
      p == q.page
      a == [type |-> q.act, ts |-> q.ts, fts |-> q.fts, lf |-> q.lf, req |-> r]
      out == IF recOn[p]
             THEN Broadcast(sent, Msg("action-recorded", p, r, q.act))
             ELSE sent
  IN /\ hasState[p]
     /\ mem' = [mem EXCEPT ![p] = PushAction(@, a)]
     /\ disk' = disk
     /\ reqs' = [reqs EXCEPT ![r].pc = "saving"]
     /\ sent' = out
     /\ UNCHANGED <<pages, hist>>

\* recordAction after saveSnapshot: push, savePageState, onAction; then the
\* caller goes on: init() returns to createPage, which calls navigate;
\* every other caller returns to its handler
FinishRecord(r) ==
  LET q == reqs[r]
      p == q.page
      a == [type |-> q.act, ts |-> q.ts, fts |-> q.fts, lf |-> q.lf, req |-> r]
      out == IF recOn[p]
             THEN Broadcast(sent, Msg("action-recorded", p, r, q.act))
             ELSE sent
  IN IF ~hasState[p]
     THEN /\ reqs' = [reqs EXCEPT ![r] = Done(q, "error")]
          /\ hist' = Returned(r)
          /\ UNCHANGED <<mem, disk, sent, pages>>
     ELSE /\ mem' = [mem EXCEPT ![p] = PushAction(@, a)]
          /\ disk' = [disk EXCEPT ![p] =
                        [exists |-> TRUE, actions |-> PushAction(mem[p], a)]]
          /\ IF q.kind = "create" /\ q.act = "create"
             THEN /\ reqs' = [reqs EXCEPT ![r].pc = "driver", ![r].act = "navigate"]
                  /\ sent' = out
                  /\ UNCHANGED <<pages, hist>>
             ELSE Finish(r, out)

\* saveSnapshot: getPageStructure returned; the structure and xpath files are
\* written, then the screenshot is awaited when screenshots are enabled
SnapDone(r) ==
  /\ UNCHANGED <<settleVars, sideVars>>
  /\ LET q == reqs[r]
         p == q.page
     IN /\ q.pc = "snap"
        /\ browser[p] = "open"
        /\ snapVer' = [snapVer EXCEPT ![p] = @ + 1]
        /\ globalMap' = [page |-> p, ver |-> snapVer[p] + 1]
        /\ IF ~dirExists[p]
           THEN /\ reqs' = [reqs EXCEPT ![r] = Done(q, "error")]
                /\ hist' = Returned(r)
                /\ UNCHANGED <<files, mem, disk, sent, pages>>
           ELSE /\ files' = files \cup SnapshotFiles(p, q.fts)
                /\ IF enableScreenshot
                   THEN /\ reqs' = [reqs EXCEPT ![r].pc = "shot"]
                        /\ UNCHANGED <<mem, disk, sent, pages, hist>>
                   ELSE FinishRecord(r)
        /\ UNCHANGED <<nextReq, nextPage, browser, recOn, hasState, dirExists,
                       wsClients, joined, now, enableScreenshot>>

\* saveSnapshot: page.screenshot({path}) returned (the driver creates the
\* directory of `path` when it is missing, or fails)
ShotDone(r) ==
  /\ UNCHANGED <<settleVars, sideVars>>
  /\ LET q == reqs[r]
         p == q.page
     IN /\ q.pc = "shot"
        /\ browser[p] = "open"
        /\ \E mk \in (IF dirExists[p] THEN {TRUE} ELSE BOOLEAN) :
             IF mk
             THEN /\ dirExists' = [dirExists EXCEPT ![p] = TRUE]
                  /\ files' = files \cup {<<p, "screenshot", q.fts>>}
                  /\ FinishRecord(r)
             ELSE /\ reqs' = [reqs EXCEPT ![r] = Done(q, "error")]
                  /\ hist' = Returned(r)
                  /\ UNCHANGED <<dirExists, files, mem, disk, sent, pages>>
        /\ UNCHANGED <<nextReq, nextPage, browser, recOn, hasState, wsClients,
                       joined, globalMap, snapVer, now, enableScreenshot>>

----------------------------------------------------------------------------
Next ==
  \/ \E s \in Subs : WsConnect(s)
  \/ \E s \in Subs : WsClose(s)
  \/ \E r \in Reqs, rec \in BOOLEAN : CreatePage(r, rec)
  \/ \E r \in Reqs : InitDone(r)
  \/ \E r \in Reqs, p \in Known : Navigate(r, p)
  \/ \E r \in Reqs, p \in Known : ActById(r, p)
  \/ \E r \in Reqs, p \in Known : GetStructure(r, p)
  \/ \E r \in Reqs, p \in Known : Condition(r, p)
  \/ \E r \in Reqs, p \in Known : Extract(r, p)
  \/ \E r \in Reqs : EvalDone(r)
  \/ \E r \in Reqs, p \in Known : ClosePage(r, p)
  \/ \E r \in Reqs : CloseDone(r)
  \/ \E r \in Reqs, p \in Known, idx \in 0..MaxIdx : DeleteAction(r, p, idx)
  \/ \E r \in Reqs, p \in Known : DeleteRecords(r, p)
  \/ \E r \in Reqs : DriverDone(r)
  \/ \E r \in Reqs : DriverThrows(r)
  \/ \E r \in Reqs : SettleDone(r)
  \/ \E r \in Reqs : StructDone(r)
  \/ \E r \in Reqs : SnapDone(r)
  \/ \E r \in Reqs : ShotDone(r)

\* the connection of subscriber s breaks; the server has not noticed yet and
\* ws.readyState stays OPEN
SocketBreaks(s) ==
  /\ UNCHANGED nonBrokenVars
  /\ s \in wsClients
  /\ broken[s] = NotBroken
  /\ broken' = [broken EXCEPT ![s] = Len(sent[s])]

\* a message handed to a broken connection could not be written: the socket
\* emits 'error' and the handler of the connection deletes the client
WsError(s) ==
  /\ UNCHANGED <<settleVars, sideVars>>
  /\ s \in wsClients
  /\ broken[s] # NotBroken
  /\ Len(sent[s]) > broken[s]
  /\ wsClients' = wsClients \ {s}
  /\ UNCHANGED <<reqs, nextReq, nextPage, pages, browser, recOn, hasState, mem,
                 dirExists, disk, files, sent, joined, globalMap, snapVer, now,
                 hist, enableScreenshot>>

\* the server with subscribers whose connections may break, pages that
\* record, and a driver that does not fail
FanoutNext ==
  \/ \E s \in Clients : WsConnect(s)
  \/ \E s \in Clients : WsClose(s)
  \/ \E s \in Clients : SocketBreaks(s)
  \/ \E s \in Clients : WsError(s)
  \/ \E r \in FanoutReqs : CreatePage(r, TRUE)
  \/ \E r \in FanoutReqs : InitDone(r)
  \/ \E r \in FanoutReqs, p \in Known : Navigate(r, p)
  \/ \E r \in FanoutReqs : DriverDone(r)
  \/ \E r \in FanoutReqs : SettleDone(r)
  \/ \E r \in FanoutReqs : SnapDone(r)
  \/ \E r \in FanoutReqs : ShotDone(r)

\* the settle wait is not part of the server runs
SettleIdle ==
  /\ wait = <<>>
  /\ net = <<>>
  /\ clock = 0
  /\ netQuiet = 0
  /\ resolutions = <<>>

Init == ServerInit /\ SettleIdle

Spec == Init /\ [][Next]_vars

\* an 'error' event that is due is emitted
FanoutSpec ==
  /\ Init
  /\ [][FanoutNext]_vars
  /\ \A s \in Clients : WF_vars(WsError(s))

----------------------------------------------------------------------------
\* Properties of the server, the recorder and the broadcaster (Spec)

\* the stages of a page operation from its first driver call up to its
\* recorder append
OperationStages == {"driver", "settle", "struct", "eval", "snap", "shot"}

InOperation(p) == {r \in Reqs : reqs[r].page = p /\ reqs[r].pc \in OperationStages}

\* C1: for every page, at most one page operation is between its first
\* driver call and its recorder append at any time.
C1_SingleFlight == \A p \in PageIds : Cardinality(InOperation(p)) <= 1

\* event e1 is in the history before event e2
Before(e1, e2) ==
  \E i, j \in 1..Len(hist) : i < j /\ hist[i] = e1 /\ hist[j] = e2

\* the two requests were being served at the same time
Overlap(r1, r2) ==
  /\ Before(<<"arrive", r1>>, <<"return", r2>>)
  /\ Before(<<"arrive", r2>>, <<"return", r1>>)

Succeeded(r) == reqs[r].pc = "done" /\ reqs[r].status = "ok"

\* C2: for any two requests against the same page that overlap and both
\* succeed, their recorded actions are in actions.json in the order in which
\* the two requests returned to their callers.
C2_RecordedInReturnOrder ==
  \A p \in PageIds : \A r1, r2 \in Reqs :
    (/\ r1 # r2
     /\ reqs[r1].page = p /\ reqs[r2].page = p
     /\ Succeeded(r1) /\ Succeeded(r2)
     /\ Overlap(r1, r2)
     /\ Before(<<"return", r1>>, <<"return", r2>>))
    => \A i, j \in 1..Len(disk[p].actions) :
         (disk[p].actions[i].req = r1 /\ disk[p].actions[j].req = r2) => i < j

\* the shape of a recording's action list
WellFormed(list) ==
  list # <<>> =>
    /\ list[1].type = "create"
    /\ Positions(list, "create") \subseteq {1}
    /\ Positions(list, "close") \subseteq {Len(list)}

\* C6: in every reachable state of every recording with a non-empty action
\* list, the first action is create, a close action (if any) is the last
\* action, and the list holds at most one create and at most one close.
C6_CreateFirstCloseLast ==
  \A p \in PageIds :
    /\ hasState[p] => WellFormed(mem[p])
    /\ disk[p].exists => WellFormed(disk[p].actions)

\* C7: for every action A other than close in a recording's action list the
\* files data/<A.timestamp>-structure.txt and data/<A.timestamp>-xpath.json
\* exist, and data/<A.timestamp>-screenshot.png when screenshots are enabled.
C7_SnapshotFilesExist ==
  \A p \in PageIds : \A i \in 1..Len(disk[p].actions) :
    LET a == disk[p].actions[i]
    IN a.type # "close" =>
         /\ <<p, "structure", a.ts>> \in files
         /\ <<p, "xpath", a.ts>> \in files
         /\ enableScreenshot => <<p, "screenshot", a.ts>> \in files

\* C8: an act-by-encoded-id request on page P resolves the encoded id through
\* the xpath map of the most recent snapshot taken of P itself.
C8_ResolvesThroughOwnSnapshot ==
  \A r \in Reqs :
    (reqs[r].kind = "actId" /\ reqs[r].via # NoMap) => reqs[r].via = reqs[r].latest

\* the subscriber connected before the page was created and is still connected
ConnectedThroughout(s, p) ==
  s \in wsClients /\ joined[s] # NotJoined /\ joined[s] < p

\* C9: for every page and every subscriber connected throughout, the
\* page-created message of the page is sent before any action-recorded
\* message of that page.
C9_PageCreatedFirst ==
  \A s \in Subs : \A p \in PageIds :
    ConnectedThroughout(s, p) =>
      \A i \in 1..Len(sent[s]) :
        (sent[s][i].type = "action-recorded" /\ sent[s][i].page = p)
        => \E j \in 1..(i - 1) :
             sent[s][j].type = "page-created" /\ sent[s][j].page = p

\* the places in the page's action list of the action a message reports
PlacesOf(p, m) ==
  {k \in 1..Len(mem[p]) : mem[p][k].req = m.req /\ mem[p][k].type = m.atype}

IsRecorded(m, p) == m.type = "action-recorded" /\ m.page = p

\* C10: for every page and every subscriber, the action-recorded messages of
\* the page are sent in the order in which the actions were appended to the
\* page's action list, also when requests for the page overlap.
C10_SentInAppendOrder ==
  \A s \in Subs : \A p \in PageIds : \A i, j \in 1..Len(sent[s]) :
    (i < j /\ IsRecorded(sent[s][i], p) /\ IsRecorded(sent[s][j], p))
    => \A a \in PlacesOf(p, sent[s][i]) : \A b \in PlacesOf(p, sent[s][j]) : a < b

\* a subscriber got the messages of two overlapping requests of one page, the
\* one of the request that arrived later first, and both actions are listed
C10_Witness ==
  \E s \in Subs : \E p \in PageIds : \E i, j \in 1..Len(sent[s]) :
    /\ i < j
    /\ IsRecorded(sent[s][i], p) /\ IsRecorded(sent[s][j], p)
    /\ sent[s][i].req > sent[s][j].req
    /\ Overlap(sent[s][i].req, sent[s][j].req)
    /\ PlacesOf(p, sent[s][i]) # {} /\ PlacesOf(p, sent[s][j]) # {}

\* the page operations a client can ask of a page
PageOperations == {"navigate", "actId", "structure", "condition", "extract", "close"}

\* request r arrived after the close request rc of its page had returned success
AfterClose(r, rc) ==
  /\ reqs[rc].kind = "close" /\ Succeeded(rc)
  /\ reqs[r].page = reqs[rc].page
  /\ reqs[r].kind \in PageOperations
  /\ Before(<<"return", rc>>, <<"arrive", r>>)

\* the request has an action in the page's list or in actions.json
Recorded(r) ==
  \E p \in PageIds :
    \/ \E i \in 1..Len(mem[p]) : mem[p][i].req = r
    \/ \E i \in 1..Len(disk[p].actions) : disk[p].actions[i].req = r

\* C11: once a page has been closed, every later page-operation request
\* addressed to its id, a second close included, is answered PageNotFound
\* (404), performs no driver call and appends nothing to the recording.
C11_ClosedPageNotFound ==
  \A r, rc \in Reqs :
    AfterClose(r, rc) =>
      /\ reqs[r].pc = "done"
      /\ reqs[r].status = "notfound"
      /\ ~Recorded(r)

\* C12: every successful close of a page sends a page-closed message to the
\* connected subscribers.
C12_PageClosedSent ==
  \A rc \in Reqs : \A s \in Subs :
    (/\ reqs[rc].kind = "close" /\ Succeeded(rc)
     /\ ConnectedThroughout(s, reqs[rc].page))
    => \E i \in 1..Len(sent[s]) :
         sent[s][i].type = "page-closed" /\ sent[s][i].page = reqs[rc].page

\* C13: from the moment a delete-all-records request for a page returns
\* success, the page's recording directory does not exist and the page id is
\* not in the manager's page map, in every later state.
C13_DeletedStaysDeleted ==
  \A r \in Reqs :
    (reqs[r].kind = "deleteRecords" /\ Succeeded(r))
    => (~dirExists[reqs[r].page] /\ reqs[r].page \notin pages)

\* the files an entry of the action list names
ReferencedFiles(p, a) ==
  {<<p, "screenshot", a.fts>>, <<p, "structure", a.fts>>, <<p, "xpath", a.fts>>,
   <<p, "list", a.lf>>}

\* this step is a delete-action request r that is answered with success
DeleteSucceeds(r) ==
  reqs[r].pc = "idle" /\ reqs'[r].kind = "deleteAction" /\ reqs'[r].status = "ok"

\* C14: a successful delete of the action at index idx, on a live page or on
\* the recording of a closed page, removes exactly that entry from
\* actions.json, keeps all other entries in their order, and leaves none of
\* the files the removed entry referenced on disk.
C14_DeleteRemovesEntryAndFiles ==
  [][\A r \in Reqs :
       DeleteSucceeds(r) =>
         LET p == reqs'[r].page
             old == disk[p].actions
         IN \E idx \in 0..(Len(old) - 1) :
              /\ disk'[p].actions = Splice(old, idx)
              /\ ReferencedFiles(p, old[idx + 1]) \cap files' = {}]_vars

\* an act or navigate request that was answered with an error
FailedOperation(r) ==
  reqs[r].kind \in {"navigate", "actId"} /\ reqs[r].pc = "done" /\ reqs[r].status = "error"

Announced(r) ==
  \E s \in Subs : \E i \in 1..Len(sent[s]) :
    sent[s][i].type = "action-recorded" /\ sent[s][i].req = r

NonDecreasing(list) ==
  \A i, j \in 1..Len(list) :
    (i < j /\ list[i].type # "close" /\ list[j].type # "close") => list[i].ts <= list[j].ts

\* C16: in every reachable state, the timestamps of the non-close actions of
\* a recording are non-decreasing in list order, including when several
\* requests for the same page overlap in time.
C16_TimestampsNonDecreasing ==
  \A p \in PageIds : NonDecreasing(mem[p]) /\ NonDecreasing(disk[p].actions)

\* a message was handed to the broken connection of s: sending it fails
SendFailed(s) == broken[s] # NotBroken /\ Len(sent[s]) > broken[s]

\* a message that request r caused was handed to the broken connection of s
FailedFor(s, r) ==
  /\ broken[s] # NotBroken
  /\ \E i \in 1..Len(sent[s]) : i > broken[s] /\ sent[s][i].req = r

\* the step hands a message to subscriber s
Hands(s) == Len(sent'[s]) = Len(sent[s]) + 1

CreatedWithoutRecording(p) == p < nextPage /\ ~recOn[p]

\* C25: for a page created with recordActions=false, no operation on it ever
\* appends an action, writes an actions.json, or causes a page-created or
\* action-recorded message to be broadcast.
C25_NoRecordingWhenDisabled ==
  \A p \in PageIds :
    CreatedWithoutRecording(p) =>
      /\ ~hasState[p]
      /\ mem[p] = <<>>
      /\ ~disk[p].exists /\ disk[p].actions = <<>>
      /\ \A s \in Clients : \A i \in 1..Len(sent[s]) : sent[s][i].page # p

\* a page created without recording is in the map, a request on it was
\* answered with success, and a subscriber was connected all the while
C25_Witness ==
  \E p \in PageIds : \E r \in Reqs : \E s \in Clients :
    /\ CreatedWithoutRecording(p) /\ p \in pages
    /\ reqs[r].pc = "done" /\ reqs[r].status = "ok"
    /\ reqs[r].page = p /\ reqs[r].kind \in {"navigate", "act", "condition"}
    /\ s \in wsClients

\* the snapshot of the action request r is recording has been captured
SnapshotCaptured(r) ==
  /\ reqs[r].fts # NoFile
  /\ SnapshotFiles(reqs[r].page, reqs[r].fts) \subseteq files

\* C28: the structure/xpath snapshot stored with a recorded action is
\* captured before that action's driver call is executed, so it shows the
\* page as it was before the action: while the driver call of a recorded
\* navigate or act is under way, its snapshot is already there.
C28_SnapshotBeforeDriverCall ==
  \A r \in Reqs :
    (reqs[r].pc = "driver" /\ hasState[reqs[r].page] /\ recOn[reqs[r].page])
    => SnapshotCaptured(r)

\* the types of the actions of a list, in the list's order
TypesOfList(list) == [i \in 1..Len(list) |-> list[i].type]

\* rc created the recording page p, then rn navigated it, then rd checked a
\* condition on it, one after the other, all three answered with success,
\* and no other request was addressed to p
CreateNavigateCondition(p, rc, rn, rd) ==
  /\ reqs[rc].kind = "create" /\ reqs[rn].kind = "navigate" /\ reqs[rd].kind = "condition"
  /\ \A r \in {rc, rn, rd} : reqs[r].page = p /\ Succeeded(r)
  /\ recOn[p] /\ hasState[p]
  /\ Before(<<"return", rc>>, <<"arrive", rn>>)
  /\ Before(<<"return", rn>>, <<"arrive", rd>>)
  /\ \A r \in Reqs \ {rc, rn, rd} : reqs[r].page # p

\* C29: after creating a recording page, then issuing one navigate request
\* and one condition request on it, all succeeding, the recording's action
\* list is exactly create, navigate, condition: three actions.
C29_CreateNavigateConditionList ==
  \A p \in PageIds : \A rc, rn, rd \in Reqs :
    CreateNavigateCondition(p, rc, rn, rd)
    => /\ TypesOfList(mem[p]) = <<"create", "navigate", "condition">>
       /\ TypesOfList(disk[p].actions) = <<"create", "navigate", "condition">>

\* request r runs a navigation or an act on its page
Operates(r) == reqs[r].act \in {"navigate", "act"} \/ reqs'[r].act \in {"navigate", "act"}

\* this step appends the action of request r to the list of its page
Appends(r) ==
  \E p \in PageIds :
    /\ Len(mem'[p]) = Len(mem[p]) + 1
    /\ mem'[p][Len(mem'[p])].req = r
    /\ mem'[p][Len(mem'[p])].type \in {"navigate", "act"}

\* C32: for every act, navigate, navigate-back, navigate-forward and reload
\* operation, the settle wait starts only after the driver call has
\* returned, the action is appended to the log only after the settle wait
\* has resolved, and the caller gets its reply only after the append.
\* Recording starts (snap) only out of the settle wait, the screenshot only
\* out of the snapshot, the append happens only while recording, and a
\* reply of success for a page that records comes with or after the append.
C32_DriverSettleRecordReply ==
  [][\A r \in Reqs :
       Operates(r) =>
         /\ (reqs'[r].pc = "settle" /\ reqs[r].pc # "settle") => reqs[r].pc = "driver"
         /\ (reqs'[r].pc = "snap" /\ reqs[r].pc # "snap") => reqs[r].pc = "settle"
         /\ (reqs'[r].pc = "shot" /\ reqs[r].pc # "shot") => reqs[r].pc = "snap"
         /\ Appends(r) => reqs[r].pc \in {"snap", "shot"}
         /\ (reqs'[r].pc = "done" /\ reqs[r].pc # "done" /\ reqs'[r].status = "ok"
             /\ hasState[reqs'[r].page])
            => (Appends(r) \/ \E i \in 1..Len(mem[reqs[r].page]) :
                                 /\ mem[reqs[r].page][i].req = r
                                 /\ mem[reqs[r].page][i].type = reqs[r].act)]_vars

\* an act request was answered with success after its action was recorded
C32_Witness ==
  \E r \in Reqs :
    /\ reqs[r].kind = "actId" /\ Succeeded(r)
    /\ \E i \in 1..Len(mem[reqs[r].page]) :
         mem[reqs[r].page][i].req = r /\ mem[reqs[r].page][i].type = "act"

\* the server with create, close and delete-action requests, the index any
\* value parseInt gives
DeleteNext ==
  \/ \E r \in Reqs, rec \in BOOLEAN : CreatePage(r, rec)
  \/ \E r \in Reqs : InitDone(r)
  \/ \E r \in Reqs : DriverDone(r)
  \/ \E r \in Reqs : SettleDone(r)
  \/ \E r \in Reqs : SnapDone(r)
  \/ \E r \in Reqs : ShotDone(r)
  \/ \E r \in Reqs, p \in Known : ClosePage(r, p)
  \/ \E r \in Reqs : CloseDone(r)
  \/ \E r \in Reqs, p \in Known, idx \in Indexes : DeleteAction(r, p, idx)

DeleteSpec == Init /\ [][DeleteNext]_vars

\* the action list a delete-action request for page p works on: the page's
\* own for a page of the map, that of actions.json otherwise
ListOf(p) == IF p \in pages THEN mem[p] ELSE disk[p].actions

\* C33: a delete-action request whose index is not a position of the action
\* list (negative, greater than or equal to the length, or not a number)
\* reports failure and leaves the in-memory action list, actions.json and
\* all artifact files unchanged, both on the live-page path and on the
\* closed-recording path.
C33_BadIndexChangesNothing ==
  [][\A r \in Reqs, p \in Known, idx \in Indexes :
       (/\ DeleteAction(r, p, idx)
        /\ p \in pages \/ disk[p].exists
        /\ ~InRange(idx, Len(ListOf(p))))
       => /\ reqs'[r].status = "error"
          /\ UNCHANGED <<mem, disk, files>>]_vars

\* this step hands subscriber s an action-recorded message
SendsRecorded(s) ==
  /\ Len(sent'[s]) = Len(sent[s]) + 1
  /\ sent'[s][Len(sent'[s])].type = "action-recorded"

\* this step is the end of saveSnapshot for request r: the structure and
\* xpath files are there after SnapDone, the screenshot after ShotDone
SnapshotWritten(r) ==
  LET q == reqs[r]
  IN \/ /\ q.pc = "snap" /\ ~enableScreenshot
        /\ SnapshotFiles(q.page, q.fts) \subseteq files'
     \/ /\ q.pc = "shot"
        /\ <<q.page, "screenshot", q.fts>> \in files'

\* C34: whenever an action-recorded message for an action A is sent,
\* actions.json on disk already contains A as its last entry and the
\* snapshot files A references are already written.  The message goes out
\* in the step that ends saveSnapshot and saves the list, and a request
\* waits for its screenshot only with its structure and xpath files written.
C34_SavedBeforeAnnounced ==
  [][/\ \A s \in Clients :
          SendsRecorded(s) =>
            LET m == sent'[s][Len(sent'[s])]
                list == disk'[m.page].actions
            IN /\ disk'[m.page].exists
               /\ Len(list) > 0
               /\ list[Len(list)].req = m.req
               /\ list[Len(list)].type = m.atype
               /\ m.atype # "close" => SnapshotWritten(m.req)
     /\ \A r \in Reqs :
          (reqs'[r].pc = "shot" /\ reqs[r].pc # "shot")
          => SnapshotFiles(reqs[r].page, reqs[r].fts) \subseteq files']_vars

\* a subscriber was handed the action-recorded message of a navigate action
C34_Witness ==
  \E s \in Clients : \E i \in 1..Len(sent[s]) :
    sent[s][i].type = "action-recorded" /\ sent[s][i].atype = "navigate"

\* a request that opens page p or takes it out of the page map is under way
Handled(p) ==
  \E r \in Reqs :
    /\ reqs[r].page = p
    /\ reqs[r].kind \in {"create", "close", "deleteRecords"}
    /\ reqs[r].pc \notin {"idle", "done"}

\* C37: every browser page opened by the manager is, once the request that
\* opened it or removed it from the page map has finished, either registered
\* in the page map or closed: no sequence of create requests (including a
\* create whose initial navigation fails), close requests and delete-records
\* requests leaves an open browser page that no request can reach.
C37_NoOrphanPage ==
  \A p \in PageIds :
    (browser[p] = "open" /\ ~Handled(p)) => p \in pages

----------------------------------------------------------------------------
\* _waitForSettledDom(timeoutMs).  Every call has its own closure variables
\* (inflight, meta, docByFrame, quietTimer, stalledRequestSweepTimer, guard)
\* and its own six handlers on the shared CDP session.

Events == {"requestWillBeSent", "loadingFinished", "loadingFailed",
           "requestServedFromCache", "responseReceived", "frameStoppedLoading"}

IdleWait ==
  [pc |-> "idle", timeout |-> 0, called |-> 0, inflight |-> {}, meta |-> {},
   docByFrame |-> {}, quietTimer |-> NoTimer, sweepTimer |-> NoTimer,
   guard |-> NoTimer, subs |-> {}, by |-> "none", late |-> FALSE,
   early |-> FALSE, starts |-> "none",
   ownQuiet |-> 0, netQuietAt |-> 0]

UnsentReq == [st |-> "unsent", type |-> "none", frame |-> 0, data |-> FALSE]

\* a non-streaming request is in flight in the browser
NetBusy(n) ==
  \E id \in NetIds : n[id].st = "inflight" /\ n[id].type \notin {"WebSocket", "EventSource"}

SettleInit ==
  /\ ServerInit
  /\ enableScreenshot = FALSE
  /\ wait = [w \in Calls |-> IdleWait]
  /\ net = [id \in NetIds |-> UnsentReq]
  /\ clock = 0
  /\ netQuiet = QuietWindowMs
  /\ resolutions = [w \in Calls |-> 0]

\* a clearQuiet that leaves the timer running
KeepQuiet(ws) == ws

\* clearQuiet
ClearQuiet(ws) == [ws EXCEPT !.quietTimer = NoTimer]

\* maybeQuiet: start the quiet timer when nothing is in flight and none runs
MaybeQuiet(ws) ==
  IF ws.inflight = {} /\ ws.quietTimer = NoTimer
  THEN [ws EXCEPT !.quietTimer = clock + QuietWindowMs]
  ELSE ws

\* finishReq
FinishReq(ws, id) ==
  IF id \notin ws.inflight
  THEN ws
  ELSE MaybeQuiet(ClearQuiet(
         [ws EXCEPT !.inflight = @ \ {id},
                    !.meta = {m \in @ : m[1] # id},
                    !.docByFrame = {d \in @ : d[2] # id}]))

\* a handler that leaves a running quiet timer alone
OnRequestKeepsQuiet(ws, id, type, frame) ==
  IF type \in {"WebSocket", "EventSource"}
  THEN ws
  ELSE [ws EXCEPT !.inflight = @ \cup {id},
                  !.meta = {m \in @ : m[1] # id} \cup {<<id, clock>>}]

\* onRequest
OnRequest(ws, id, type, frame) ==
  IF type \in {"WebSocket", "EventSource"}
  THEN ws
  ELSE ClearQuiet(
         [ws EXCEPT !.inflight = @ \cup {id},
                    !.meta = {m \in @ : m[1] # id} \cup {<<id, clock>>},
                    !.docByFrame = IF type = "Document"
                                   THEN {d \in @ : d[1] # frame} \cup {<<frame, id>>}
                                   ELSE @])

\* onDataUrl: a response whose URL starts with "data:" completes the request
OnDataUrl(ws, id, data) == IF data THEN FinishReq(ws, id) ELSE ws

\* onFrameStop
OnFrameStop(ws, frame) ==
  IF \E d \in ws.docByFrame : d[1] = frame
  THEN FinishReq(ws, (CHOOSE d \in ws.docByFrame : d[1] = frame)[2])
  ELSE ws

\* a sweep that drops nothing
SweepKeepsAll(ws) == MaybeQuiet([ws EXCEPT !.sweepTimer = clock + SweepPeriodMs])

\* the callback of stalledRequestSweepTimer (setInterval, 500 ms)
SweepStalled(ws) ==
  LET stale == {m \in ws.meta : clock - m[2] > StallAgeMs}
  IN MaybeQuiet(
       [ws EXCEPT !.inflight = @ \ {m[1] : m \in stale},
                  !.meta = @ \ stale,
                  !.sweepTimer = clock + SweepPeriodMs])

\* a resolveDone that leaves the guard timer running
ResolveDoneKeepsGuard(ws, by) ==
  [ws EXCEPT !.pc = "resolved", !.subs = {}, !.quietTimer = NoTimer,
             !.sweepTimer = NoTimer, !.by = by]

\* resolveDone: all six handlers off, the three timers cleared, resolve();
\* the closure (inflight, meta, docByFrame) is unreachable afterwards
ResolveDone(ws, by) ==
  [ws EXCEPT !.pc = "resolved", !.subs = {}, !.quietTimer = NoTimer,
             !.sweepTimer = NoTimer, !.guard = NoTimer, !.by = by,
             !.inflight = {}, !.meta = {}, !.docByFrame = {},
             !.late = (clock - ws.called > ws.timeout + TickMs),
             !.early = (ws.guard # NoTimer /\ clock < ws.guard),
             !.called = 0, !.netQuietAt = netQuiet]

\* the promise executor: subscribe, start the sweep interval, maybeQuiet(),
\* start the guard
Arm(ws) ==
  MaybeQuiet(
    [ws EXCEPT !.pc = "armed", !.inflight = {}, !.meta = {}, !.docByFrame = {},
               !.quietTimer = NoTimer, !.subs = Events,
               !.sweepTimer = clock + SweepPeriodMs,
               !.guard = clock + ws.timeout, !.ownQuiet = 0])

\* the time the wait needs at most, from the start of a request it tracks, to
\* drop the request and run out its quiet window
StallBudgetMs == StallAgeMs + SweepPeriodMs + QuietWindowMs

\* bookkeeping of the model: ownQuiet is the time for which the wait's own
\* inflight set has been empty, netQuiet the time for which the browser has
\* had no non-streaming request in flight, both counted up to QuietWindowMs;
\* starts tells whether the last request the wait began to track started
\* more than StallBudgetMs before the wait's deadline ("early") or not
Track(old, new) ==
  LET began == {m \in new.meta : m \notin old.meta}
      seen == IF began = {} THEN new
              ELSE [new EXCEPT !.starts = IF new.guard - clock > StallBudgetMs
                                          THEN "early" ELSE "late"]
  IN IF seen.pc = "armed" /\ (old.inflight # {} \/ seen.inflight # {})
     THEN [seen EXCEPT !.ownQuiet = 0]
     ELSE seen

Later(q) == Min(QuietWindowMs, q + TickMs)

\* session.emit(event) for one wait: its handler runs, leaving the closure as
\* `handled`, when the wait is subscribed to the event
Deliver(ws, event, handled) ==
  IF event \in ws.subs THEN Track(ws, handled) ELSE ws

\* a timer whose time has come
Due(t) == t # NoTimer /\ t <= clock

----------------------------------------------------------------------------
\* _waitForSettledDom is called: getCDPClient, then await page.title()
CallWait(w, timeout) ==
  /\ UNCHANGED <<serverVars, sideVars>>
  /\ wait[w].pc = "idle"
  /\ \A v \in Calls : v < w => wait[v].pc # "idle"
  /\ wait' = [wait EXCEPT ![w] = [@ EXCEPT !.pc = "title", !.timeout = timeout,
                                           !.called = clock]]
  /\ UNCHANGED <<net, clock, netQuiet, resolutions>>

\* page.title() returned: an empty title or an error gives hasDoc = false and
\* the call awaits waitForLoadState("domcontentloaded")
TitleDone(w, hasDoc) ==
  /\ UNCHANGED <<serverVars, sideVars>>
  /\ wait[w].pc = "title"
  /\ wait' = [wait EXCEPT ![w].pc = IF hasDoc THEN "enable" ELSE "loadState"]
  /\ UNCHANGED <<net, clock, netQuiet, resolutions>>

\* waitForLoadState returned: the document reached DOMContentLoaded
LoadStateDone(w) ==
  /\ UNCHANGED <<serverVars, sideVars>>
  /\ wait[w].pc = "loadState"
  /\ wait' = [wait EXCEPT ![w].pc = "enable"]
  /\ UNCHANGED <<net, clock, netQuiet, resolutions>>

\* waitForLoadState or one of the client.send calls threw: the call rejects
WaitThrows(w) ==
  /\ UNCHANGED <<serverVars, sideVars>>
  /\ wait[w].pc \in {"loadState", "enable"}
  /\ wait' = [wait EXCEPT ![w].pc = "rejected"]
  /\ UNCHANGED <<net, clock, netQuiet, resolutions>>

\* Network.enable, Page.enable and Target.setAutoAttach returned: the
\* promise executor runs
EnableDone(w) ==
  /\ UNCHANGED <<serverVars, sideVars>>
  /\ wait[w].pc = "enable"
  /\ wait' = [wait EXCEPT ![w] = Arm(@)]
  /\ UNCHANGED <<net, clock, netQuiet, resolutions>>

\* a quiet timer whose firing takes the handlers and timers of every armed
\* call off a shared session
QuietFiresForAll(w) ==
  /\ UNCHANGED <<serverVars, sideVars>>
  /\ Due(wait[w].quietTimer)
  /\ wait' = [v \in Calls |-> IF wait[v].pc = "armed"
                               THEN ResolveDone(wait[v], "quiet") ELSE wait[v]]
  /\ resolutions' = [v \in Calls |-> IF wait[v].pc = "armed"
                                      THEN resolutions[v] + 1 ELSE resolutions[v]]
  /\ UNCHANGED <<net, clock, netQuiet>>

\* the quiet timer fires
QuietFires(w) ==
  /\ UNCHANGED <<serverVars, sideVars>>
  /\ Due(wait[w].quietTimer)
  /\ wait' = [wait EXCEPT ![w] = ResolveDone(@, "quiet")]
  /\ resolutions' = [resolutions EXCEPT ![w] = @ + 1]
  /\ UNCHANGED <<net, clock, netQuiet>>

\* the guard timer fires
GuardFires(w) ==
  /\ UNCHANGED <<serverVars, sideVars>>
  /\ Due(wait[w].guard)
  /\ wait' = [wait EXCEPT ![w] = ResolveDone(@, "guard")]
  /\ resolutions' = [resolutions EXCEPT ![w] = @ + 1]
  /\ UNCHANGED <<net, clock, netQuiet>>

\* the stall sweep runs
SweepFires(w) ==
  /\ UNCHANGED <<serverVars, sideVars>>
  /\ Due(wait[w].sweepTimer)
  /\ wait' = [wait EXCEPT ![w] = Track(@, SweepStalled(@))]
  /\ UNCHANGED <<net, clock, netQuiet, resolutions>>

\* the browser starts a request: Network.requestWillBeSent
RequestWillBeSent(id, type, frame, data) ==
  /\ UNCHANGED <<serverVars, sideVars>>
  /\ net[id].st = "unsent"
  /\ \A j \in NetIds : j < id => net[j].st # "unsent"
  /\ net' = [net EXCEPT ![id] = [st |-> "inflight", type |-> type, frame |-> frame,
                                 data |-> data]]
  /\ wait' = [w \in Calls |->
               Deliver(wait[w], "requestWillBeSent", OnRequest(wait[w], id, type, frame))]
  /\ netQuiet' = IF NetBusy(net') THEN 0 ELSE netQuiet
  /\ UNCHANGED <<clock, resolutions>>

\* Network.loadingFinished
LoadingFinished(id) ==
  /\ UNCHANGED <<serverVars, sideVars>>
  /\ net[id].st = "inflight"
  /\ net' = [net EXCEPT ![id].st = "done"]
  /\ wait' = [w \in Calls |->
               Deliver(wait[w], "loadingFinished", FinishReq(wait[w], id))]
  /\ netQuiet' = IF NetBusy(net) THEN 0 ELSE netQuiet
  /\ UNCHANGED <<clock, resolutions>>

\* Network.loadingFailed
LoadingFailed(id) ==
  /\ UNCHANGED <<serverVars, sideVars>>
  /\ net[id].st = "inflight"
  /\ net' = [net EXCEPT ![id].st = "done"]
  /\ wait' = [w \in Calls |->
               Deliver(wait[w], "loadingFailed", FinishReq(wait[w], id))]
  /\ netQuiet' = IF NetBusy(net) THEN 0 ELSE netQuiet
  /\ UNCHANGED <<clock, resolutions>>

\* Network.requestServedFromCache: the request is answered from the cache
RequestServedFromCache(id) ==
  /\ UNCHANGED <<serverVars, sideVars>>
  /\ net[id].st = "inflight"
  /\ net[id].type \notin {"WebSocket", "EventSource"}
  /\ net' = [net EXCEPT ![id].st = "done"]
  /\ wait' = [w \in Calls |->
               Deliver(wait[w], "requestServedFromCache", FinishReq(wait[w], id))]
  /\ netQuiet' = IF NetBusy(net) THEN 0 ELSE netQuiet
  /\ UNCHANGED <<clock, resolutions>>

\* Network.responseReceived: the body of the request is still loading
ResponseReceived(id) ==
  /\ UNCHANGED <<serverVars, sideVars>>
  /\ net[id].st = "inflight"
  /\ net[id].type \notin {"WebSocket", "EventSource"}
  /\ wait' = [w \in Calls |->
               Deliver(wait[w], "responseReceived", OnDataUrl(wait[w], id, net[id].data))]
  /\ netQuiet' = IF NetBusy(net) THEN 0 ELSE netQuiet
  /\ UNCHANGED <<net, clock, resolutions>>

\* Page.frameStoppedLoading
FrameStoppedLoading(frame) ==
  /\ UNCHANGED <<serverVars, sideVars>>
  /\ wait' = [w \in Calls |->
               Deliver(wait[w], "frameStoppedLoading", OnFrameStop(wait[w], frame))]
  /\ UNCHANGED <<net, clock, netQuiet, resolutions>>

\* time passes; a timer that is due fires before time moves on
Tick ==
  /\ UNCHANGED <<serverVars, sideVars>>
  /\ clock + TickMs <= MaxClock
  /\ \A w \in Calls : ~Due(wait[w].quietTimer) /\ ~Due(wait[w].sweepTimer)
                      /\ ~Due(wait[w].guard)
  /\ clock' = clock + TickMs
  /\ netQuiet' = IF NetBusy(net) THEN 0 ELSE Later(netQuiet)
  /\ wait' = [w \in Calls |->
                IF wait[w].pc # "armed" THEN wait[w]
                ELSE [wait[w] EXCEPT !.ownQuiet = IF wait[w].inflight # {} THEN 0
                                                  ELSE Later(@)]]
  /\ UNCHANGED <<net, resolutions>>

SettleNext ==
  \/ \E w \in Waits, t \in Timeouts : CallWait(w, t)
  \/ \E w \in Waits, hasDoc \in BOOLEAN : TitleDone(w, hasDoc)
  \/ \E w \in Waits : LoadStateDone(w)
  \/ \E w \in Waits : WaitThrows(w)
  \/ \E w \in Waits : EnableDone(w)
  \/ \E w \in Waits : QuietFires(w)
  \/ \E w \in Waits : GuardFires(w)
  \/ \E w \in Waits : SweepFires(w)
  \/ \E id \in NetIds, type \in {"Document", "XHR", "WebSocket"},
        frame \in Frames, data \in BOOLEAN : RequestWillBeSent(id, type, frame, data)
  \/ \E id \in NetIds : LoadingFinished(id)
  \/ \E id \in NetIds : LoadingFailed(id)
  \/ \E id \in NetIds : RequestServedFromCache(id)
  \/ \E id \in NetIds : ResponseReceived(id)
  \/ \E frame \in Frames : FrameStoppedLoading(frame)
  \/ Tick

SettleSpec == SettleInit /\ [][SettleNext]_vars

\* two calls of _waitForSettledDom that may overlap on one page
PairNext ==
  \/ \E w \in Calls, t \in PairTimeouts : CallWait(w, t)
  \/ \E w \in Calls, hasDoc \in BOOLEAN : TitleDone(w, hasDoc)
  \/ \E w \in Calls : LoadStateDone(w)
  \/ \E w \in Calls : WaitThrows(w)
  \/ \E w \in Calls : EnableDone(w)
  \/ \E w \in Calls : QuietFires(w)
  \/ \E w \in Calls : GuardFires(w)
  \/ \E w \in Calls : SweepFires(w)
  \/ \E id \in PairNetIds, type \in {"Document", "XHR", "WebSocket"},
        frame \in Frames, data \in BOOLEAN : RequestWillBeSent(id, type, frame, data)
  \/ \E id \in PairNetIds : LoadingFinished(id)
  \/ \E id \in PairNetIds : LoadingFailed(id)
  \/ \E id \in PairNetIds : RequestServedFromCache(id)
  \/ \E id \in PairNetIds : ResponseReceived(id)
  \/ \E frame \in Frames : FrameStoppedLoading(frame)
  \/ Tick

PairSpec == SettleInit /\ [][PairNext]_vars

----------------------------------------------------------------------------
\* Properties of _waitForSettledDom (SettleSpec)

Pending(w) == wait[w].pc \in {"title", "loadState", "enable", "armed"}

\* C3: every call _waitForSettledDom(timeoutMs) resolves no later than
\* timeoutMs (plus one scheduling step) after it was called, whatever the
\* driver does during the call.
C3_ResolvesByDeadline ==
  \A w \in Waits :
    /\ Pending(w) => clock - wait[w].called <= wait[w].timeout + TickMs
    /\ wait[w].pc = "resolved" => ~wait[w].late

CleanedUp(w) ==
  /\ wait[w].subs = {}
  /\ wait[w].quietTimer = NoTimer
  /\ wait[w].sweepTimer = NoTimer
  /\ wait[w].guard = NoTimer

\* C4: each settle wait resolves exactly once; at the moment it resolves all
\* six handlers are unsubscribed and the quiet timer, the stall sweep and the
\* guard are cancelled, and no handler or timer of a resolved wait runs
\* afterwards (a resolved wait never changes again).
C4_ResolvesOnceAndCleansUp ==
  /\ [](\A w \in Waits :
          /\ resolutions[w] <= 1
          /\ wait[w].pc = "resolved" => (resolutions[w] = 1 /\ CleanedUp(w))
          /\ wait[w].pc = "armed" =>
               (resolutions[w] = 0 /\ wait[w].guard # NoTimer /\ wait[w].subs = Events))
  /\ [][\A w \in Waits : wait[w].pc = "resolved" => wait'[w] = wait[w]]_vars

\* a wait resolved by its quiet timer while its guard was still pending, and
\* the browser has started a request since
C4_Witness ==
  \E w \in Waits : \E id \in NetIds :
    /\ wait[w].pc = "resolved" /\ wait[w].by = "quiet" /\ wait[w].early
    /\ resolutions[w] = 1
    /\ net[id].st = "inflight" /\ net[id].type = "XHR"

ResolvedEarly(w) ==
  wait[w].pc = "resolved" /\ wait[w].by = "quiet" /\ wait[w].early

ResolvedQuietly(w) == wait[w].by = "quiet" /\ wait[w].early

Streaming == {"WebSocket", "EventSource"}

\* the step is a Network.requestWillBeSent for request id
Sends(id) == net[id].st = "unsent" /\ net'[id].st = "inflight"

QuietRunning(w) == wait[w].pc = "armed" /\ wait[w].quietTimer # NoTimer

\* the wait is back in Observing after the step
Observing(w) ==
  /\ wait'[w].pc = "armed"
  /\ wait'[w].quietTimer = NoTimer
  /\ wait'[w].inflight # {}

\* C18: while a settle wait's quiet timer is running, every
\* Network.requestWillBeSent event, whatever its resource type, cancels the
\* quiet timer and returns the wait to the Observing state.
C18_AnyRequestCancelsQuiet ==
  [][\A w \in Waits : \A id \in NetIds :
       (QuietRunning(w) /\ Sends(id)) => Observing(w)]_vars

\* C18, amended: while a settle wait's quiet timer is running, every
\* Network.requestWillBeSent event whose resource type is neither WebSocket
\* nor EventSource cancels the quiet timer and returns the wait to Observing.
C18_TrackedRequestCancelsQuiet ==
  [][\A w \in Waits : \A id \in NetIds :
       (QuietRunning(w) /\ Sends(id) /\ net'[id].type \notin Streaming)
       => Observing(w)]_vars

\* a wait whose quiet timer ran from its arming and is now cancelled by the
\* only request it has seen, which is still in flight
C18_Witness ==
  \E w \in Waits : \E id \in NetIds :
    /\ wait[w].pc = "armed" /\ wait[w].quietTimer = NoTimer
    /\ wait[w].inflight = {id}
    /\ \E m \in wait[w].meta : m[1] = id /\ m[2] = clock
    /\ net[id].st = "inflight" /\ net[id].type \notin Streaming
    /\ \A j \in NetIds : j # id => net[j].st = "unsent"

----------------------------------------------------------------------------
\* Properties of overlapping calls of _waitForSettledDom (PairSpec)

\* the step resolves call w
Resolves(w) == wait[w].pc # "resolved" /\ wait'[w].pc = "resolved"

\* the step is a completion event for request id
Completes(id) == net[id].st = "inflight" /\ net'[id].st = "done"

\* C19: when two settle waits run at the same time on one page, resolving
\* one of them neither resolves the other nor removes the other's event
\* handlers or timers; each wait sees every event delivered while it is
\* subscribed, and each resolves exactly once.
C19_WaitsAreIndependent ==
  /\ [](\A w \in Calls :
          /\ resolutions[w] <= 1
          /\ wait[w].pc = "resolved" <=> resolutions[w] = 1
          /\ wait[w].pc = "armed" =>
               /\ wait[w].subs = Events
               /\ wait[w].guard # NoTimer
               /\ wait[w].sweepTimer # NoTimer)
  /\ [][\A w, v \in Calls :
          (w # v /\ Resolves(w)) => wait'[v] = wait[v]]_vars
  /\ [][\A v \in Calls : \A id \in NetIds :
          wait[v].pc = "armed" =>
            /\ (Sends(id) /\ net'[id].type \notin Streaming)
                 => (id \in wait'[v].inflight /\ wait'[v].quietTimer = NoTimer)
            /\ Completes(id) => id \notin wait'[v].inflight]_vars

\* one call has resolved through its quiet timer, and the other, still armed
\* with its timers, has just seen a request start that is still in flight
C19_Witness ==
  \E w, v \in Calls : \E id \in NetIds :
    /\ w # v
    /\ wait[w].pc = "resolved" /\ wait[w].by = "quiet"
    /\ wait[v].pc = "armed" /\ wait[v].inflight = {id}
    /\ wait[v].quietTimer = NoTimer /\ wait[v].guard # NoTimer
    /\ \E m \in wait[v].meta : m[1] = id /\ m[2] = clock
    /\ net[id].st = "inflight" /\ net[id].type = "XHR" /\ ~net[id].data

----------------------------------------------------------------------------
\* replay(actions, options): the client-side loop over a recorded trace

\* Action.type; "navigateBack" stands for the three types the loop only warns
\* about (navigateBack, navigateForward, reload), "other" for a type the
\* switch does not know
ActionTypes == {"create", "navigate", "navigateBack", "act", "wait",
                "condition", "close", "other"}

\* the types whose case reads an optional field before it calls the client:
\* xpath or encodedId of act, timeout of wait, pattern of condition
WithOptionalField == {"act", "wait", "condition"}

\* the types whose case starts with `if (!pageId) throw`
NeedsPage == {"navigate", "navigateBack", "act", "wait", "condition"}

\* an action of a trace: its type and whether the optional field is set
TraceActions ==
  {a \in [type : ActionTypes, arg : BOOLEAN] : a.type \in WithOptionalField \/ a.arg}

RECURSIVE Traces(_)
Traces(n) ==
  IF n = 0 THEN {<<>>}
  ELSE LET shorter == Traces(n - 1)
       IN shorter \cup
          {Append(t, a) : t \in {u \in shorter : Len(u) = n - 1}, a \in TraceActions}

\* the switch throws before it reaches the client
ThrowsAtOnce(a, pageId) ==
  \/ a.type \in NeedsPage /\ pageId = NullPage
  \/ a.type = "act" /\ ~a.arg

\* the switch awaits a call of the client
CallsClient(a, pageId) ==
  \/ a.type \in {"create", "navigate"}
  \/ a.type \in WithOptionalField /\ a.arg
  \/ a.type = "close" /\ pageId # NullPage

\* the recordActions option replay() passes to client.createPage
RecordActionsOption == FALSE

\* what the service appends to the recording of a page for a successful call:
\* nothing unless the page was created with recordActions; createPage records
\* the create of init() and the navigate of its initial navigation
ServerRecords(type, recordActions) ==
  IF ~recordActions THEN <<>>
  ELSE IF type = "create" THEN <<"create", "navigate">>
  ELSE <<type>>

\* after the loop: close the page if one is still open
Leave(rp) ==
  IF rp.pageId # NullPage
  THEN [rp EXCEPT !.pc = "closing", !.closeIssued = @ \cup {rp.pageId}]
  ELSE [rp EXCEPT !.pc = "done"]

\* the next iteration of `for (const action of actions)`
Advance(rp) == [rp EXCEPT !.i = @ + 1, !.pc = "loop"]

\* result.executedActions++ and the optional delay
Executed(rp) ==
  LET counted == [rp EXCEPT !.executedActions = @ + 1]
  IN IF rp.delay /\ rp.actions[rp.i].type # "wait"
     THEN [counted EXCEPT !.pc = "sleep"]
     ELSE Advance(counted)

\* a catch block that goes on to the next action whatever the options say
CatchAndGoOn(rp) == Advance([rp EXCEPT !.errors = Append(@, rp.i)])

\* the catch block: errors.push, then break unless continueOnError
Catch(rp) ==
  LET pushed == [rp EXCEPT !.errors = Append(@, rp.i)]
  IN IF rp.continueOnError
     THEN Advance(pushed)
     ELSE Leave([pushed EXCEPT !.success = FALSE])

\* replay() is called
Replay ==
  /\ UNCHANGED nonReplayVars
  /\ replay.pc = "idle"
  /\ \E actions \in Traces(MaxTrace), continueOnError \in BOOLEAN, delay \in BOOLEAN :
       replay' = [IdleReplay EXCEPT !.pc = "loop", !.actions = actions, !.i = 1,
                                    !.continueOnError = continueOnError,
                                    !.delay = delay]

\* the loop body up to its first await, or through the catch block
Enter ==
  /\ UNCHANGED nonReplayVars
  /\ replay.pc = "loop"
  /\ replay.i <= Len(replay.actions)
  /\ LET a == replay.actions[replay.i]
         entered == [replay EXCEPT !.attempted = Append(@, replay.i)]
     IN replay' = IF ThrowsAtOnce(a, replay.pageId) THEN Catch(entered)
                  ELSE IF CallsClient(a, replay.pageId)
                       THEN [entered EXCEPT !.pc = "call",
                                            !.closeIssued = IF a.type = "close"
                                                            THEN @ \cup {replay.pageId}
                                                            ELSE @]
                       ELSE Executed(entered)

\* the awaited client call returns
CallReturns ==
  /\ UNCHANGED nonReplayVars
  /\ replay.pc = "call"
  /\ LET type == replay.actions[replay.i].type
     IN replay' = Executed(
                    [replay EXCEPT !.pageId = IF type = "create" THEN replay.created + 1
                                              ELSE IF type = "close" THEN NullPage
                                              ELSE @,
                                   !.created = IF type = "create" THEN @ + 1 ELSE @,
                                   !.recorded = @ \o ServerRecords(type, RecordActionsOption)])

\* the awaited client call rejects
CallThrows ==
  /\ UNCHANGED nonReplayVars
  /\ replay.pc = "call"
  /\ replay' = Catch(replay)

\* sleep(options.delay) is over
SleepDone ==
  /\ UNCHANGED nonReplayVars
  /\ replay.pc = "sleep"
  /\ replay' = Advance(replay)

\* the trace is exhausted
LoopEnds ==
  /\ UNCHANGED nonReplayVars
  /\ replay.pc = "loop"
  /\ replay.i > Len(replay.actions)
  /\ replay' = Leave(replay)

\* the closing call of the clean-up returns or rejects: both are ignored
CleanupDone ==
  /\ UNCHANGED nonReplayVars
  /\ replay.pc = "closing"
  /\ replay' = [replay EXCEPT !.pc = "done"]

ReplayNext ==
  \/ Replay
  \/ Enter
  \/ CallReturns
  \/ CallThrows
  \/ SleepDone
  \/ LoopEnds
  \/ CleanupDone

ReplayInit == ServerInit /\ enableScreenshot = FALSE /\ SettleIdle

ReplaySpec == ReplayInit /\ [][ReplayNext]_vars

----------------------------------------------------------------------------
\* Properties of replay (ReplaySpec)

\* the indices 1..n in order
UpTo(n) == [j \in 1..n |-> j]

\* C20: for every trace and every pattern of failing steps: with
\* continueOnError every action of the trace is attempted in trace order and
\* executedActions + errors.length equals the trace length; without it the
\* replay stops at the first failing action, attempts no action after it, and
\* executedActions equals the number of actions before it.
C20_ReplayCountsActions ==
  replay.pc = "done" =>
    IF replay.continueOnError
    THEN /\ replay.attempted = UpTo(Len(replay.actions))
         /\ replay.executedActions + Len(replay.errors) = Len(replay.actions)
    ELSE IF replay.errors = <<>>
         THEN /\ replay.attempted = UpTo(Len(replay.actions))
              /\ replay.executedActions = Len(replay.actions)
         ELSE /\ Len(replay.errors) = 1
              /\ replay.attempted = UpTo(replay.errors[1])
              /\ replay.executedActions = replay.errors[1] - 1

\* a replay without continueOnError that returned after its second action
\* failed in the client, with a third action left in the trace
C20_Witness ==
  /\ replay.pc = "done"
  /\ ~replay.continueOnError
  /\ Len(replay.actions) = MaxTrace
  /\ replay.errors = <<2>>
  /\ replay.actions[2].type = "act" /\ replay.actions[2].arg
  /\ replay.actions[1].type = "create"

\* the action kinds of a trace, in order
KindsOf(trace) == [j \in 1..Len(trace) |-> trace[j].type]

\* a replay that returned without an error
ReplayedAll == replay.pc = "done" /\ replay.success /\ replay.errors = <<>>

\* C21: replaying a recording R against the service produces a new recording
\* R' whose sequence of action kinds equals the sequence of action kinds of R.
C21_ReplayRecordsSameKinds ==
  (ReplayedAll /\ replay.actions # <<>>)
  => replay.recorded = KindsOf(replay.actions)

\* C22: when replay returns, a close request has been issued for every page
\* that this replay created through the API, for any trace.
C22_EveryCreatedPageClosed ==
  replay.pc = "done" => \A p \in 1..replay.created : p \in replay.closeIssued

\* C39: for every trace and every option set, the ReplayResult returned by
\* replay has success = true exactly when its errors list is empty.
C39_SuccessIffNoErrors ==
  replay.pc = "done" => (replay.success <=> replay.errors = <<>>)

----------------------------------------------------------------------------
\* GET /api/recordings/:recordingId/files/:filename

\* Names are character sequences and a path is a sequence of names, so that
\* String.startsWith can be told from containment in a directory.
DotDot      == <<".", ".">>
TmpName     == <<"t", "m", "p">>
RootName    == <<"s", "i", "m", "p", "l", "e", "p", "a", "g", "e">>
DataName    == <<"d", "a", "t", "a">>
SiblingName == <<"d", "a", "t", "a", "2">>
ShotName    == <<"a", ".", "p", "n", "g">>
RecName     == <<"r", "1">>
OtherRecName == <<"r", "2">>

\* req.params are percent-decoded by the router, so a parameter may hold
\* "/" and "..": a parameter is the sequence of names between its slashes
RECURSIVE PathsOver(_, _)
PathsOver(names, n) ==
  IF n = 0 THEN {<<>>}
  ELSE LET shorter == PathsOver(names, n - 1)
       IN shorter \cup {Append(q, x) : q \in {u \in shorter : Len(u) = n - 1}, x \in names}

Filenames == PathsOver({DotDot, DataName, SiblingName, ShotName}, MaxDepth) \ {<<>>}
RecordingIds == {<<RecName>>, <<OtherRecName>>, <<DotDot>>}

\* path.join / path.resolve of an absolute path: ".." steps up, never above
\* the root
RECURSIVE Normalize(_)
Normalize(path) ==
  IF path = <<>> THEN <<>>
  ELSE LET parent == Normalize(SubSeq(path, 1, Len(path) - 1))
           last == path[Len(path)]
       IN IF last = DotDot
          THEN IF parent = <<>> THEN <<>> ELSE SubSeq(parent, 1, Len(parent) - 1)
          ELSE Append(parent, last)

\* the string of a normalized path
RECURSIVE Joined(_)
Joined(path) == IF path = <<>> THEN <<>> ELSE <<"/">> \o Head(path) \o Joined(Tail(path))

PathString(path) == IF path = <<>> THEN <<"/">> ELSE Joined(path)

\* String.prototype.startsWith
StartsWith(str, prefix) ==
  Len(str) >= Len(prefix) /\ SubSeq(str, 1, Len(prefix)) = prefix

\* path.join(os.tmpdir(), 'simplepage', recordingId, 'data')
DataDirOf(recordingId) == Normalize(<<TmpName, RootName>> \o recordingId \o <<DataName>>)

\* path.join(os.tmpdir(), 'simplepage', recordingId, 'data', filename)
FilePathOf(recordingId, filename) ==
  Normalize(<<TmpName, RootName>> \o recordingId \o <<DataName>> \o filename)

\* the handler; exists is fs.existsSync(filePath)
ServeFile(recordingId, filename, exists) ==
  /\ UNCHANGED nonServeVars
  /\ LET filePath == FilePathOf(recordingId, filename)
         resolvedPath == Normalize(filePath)
         expectedBase == Normalize(DataDirOf(recordingId))
         request == [IdleServe EXCEPT !.pc = "done", !.recordingId = recordingId,
                                      !.filename = filename, !.exists = exists]
     IN serve' = IF ~exists
                 THEN [request EXCEPT !.status = 404]
                 ELSE IF ~StartsWith(PathString(resolvedPath), PathString(expectedBase))
                      THEN [request EXCEPT !.status = 403]
                      ELSE [request EXCEPT !.status = 200, !.sent = resolvedPath]

ServeNext ==
  \E recordingId \in RecordingIds, filename \in Filenames, exists \in BOOLEAN :
    ServeFile(recordingId, filename, exists)

ServeInit == ServerInit /\ enableScreenshot = FALSE /\ SettleIdle

ServeSpec == ServeInit /\ [][ServeNext]_vars

----------------------------------------------------------------------------
\* Properties of the file endpoint (ServeSpec)

\* path lies inside directory dir
Inside(path, dir) == Len(path) > Len(dir) /\ SubSeq(path, 1, Len(dir)) = dir

\* C23: for every recordingId and filename the endpoint serves a file only
\* if it lies inside the directory <recordings-root>/simplepage/<recordingId>/data/
\* of that recording; every request whose path resolves outside that
\* directory is answered 403 and serves nothing.
C23_ServesOnlyInsideDataDir ==
  serve.pc = "done" =>
    LET dir == DataDirOf(serve.recordingId)
        path == FilePathOf(serve.recordingId, serve.filename)
    IN /\ serve.status = 200 => Inside(serve.sent, dir)
       /\ ~Inside(path, dir) => (serve.status = 403 /\ serve.sent = <<>>)

----------------------------------------------------------------------------
\* The frame-ordinal registry of a SimplePage

FrameIds   == {"A", "B", "C"}
BackendIds == 1..MaxBackendIds

\* ordinalForFrameId with one more than the size for a new frame
OrdinalPastSize(reg, fid) ==
  IF fid = Undefined THEN <<reg, 0>>
  ELSE IF fid \in DOMAIN reg.fidOrdinals THEN <<reg, reg.fidOrdinals[fid]>>
  ELSE LET next == Cardinality(DOMAIN reg.fidOrdinals) + 1
       IN <<[reg EXCEPT !.fidOrdinals =
                [f \in DOMAIN reg.fidOrdinals \cup {fid} |->
                   IF f = fid THEN next ELSE reg.fidOrdinals[f]],
              !.order = Append(@, fid)],
            next>>

\* ordinalForFrameId: the registry afterwards and the ordinal returned
OrdinalForFrameId(reg, fid) ==
  IF fid = Undefined THEN <<reg, 0>>
  ELSE IF fid \in DOMAIN reg.fidOrdinals THEN <<reg, reg.fidOrdinals[fid]>>
  ELSE LET next == Cardinality(DOMAIN reg.fidOrdinals)
       IN <<[reg EXCEPT !.fidOrdinals =
                [f \in DOMAIN reg.fidOrdinals \cup {fid} |->
                   IF f = fid THEN next ELSE reg.fidOrdinals[f]],
              !.order = Append(@, fid)],
            next>>

\* the template `${ordinal}-${backendId}`: decimal digits around one "-",
\* so the string is told apart exactly as the pair is
EncodedId(ordinal, backendId) == <<ordinal, "-", backendId>>

\* init(): getCurrentRootFrameId, updateRootFrameId
RegistryInit ==
  /\ UNCHANGED nonRegistryVars
  /\ registry.pc = "new"
  /\ registry' = [registry EXCEPT !.pc = "ready", !.rootFrameId = registry.top]

\* navigate() or reload: page.goto, after which the browser's top frame has
\* the id newTop; neither the registry nor rootFrameId is touched
NavigateTop(newTop) ==
  /\ UNCHANGED nonRegistryVars
  /\ registry.pc = "ready"
  /\ registry' = [registry EXCEPT !.top = newTop,
                                  !.stale = @ \/ newTop # registry.top]

\* encodeWithFrameId(fid, backendId), called for the nodes of a snapshot
EncodeWithFrameId(fid, backendId) ==
  /\ UNCHANGED nonRegistryVars
  /\ registry.pc = "ready"
  /\ LET looked == OrdinalForFrameId(registry, fid)
     IN registry' = [looked[1] EXCEPT
                       !.encoded = @ \cup {<<fid, backendId, EncodedId(looked[2], backendId)>>},
                       !.sightedStale = @ \/ registry.stale]

\* resetFrameOrdinals(): a public method no code of the repository calls
ResetFrameOrdinals ==
  /\ UNCHANGED nonRegistryVars
  /\ registry.pc = "ready"
  /\ registry.resets < MaxResets
  /\ registry' = [registry EXCEPT !.fidOrdinals = [f \in {Undefined} |-> 0],
                                  !.order = <<>>, !.encoded = {},
                                  !.stale = FALSE, !.resets = @ + 1]

RegistryNext ==
  \/ RegistryInit
  \/ \E newTop \in FrameIds : NavigateTop(newTop)
  \/ \E fid \in FrameIds \cup {Undefined}, backendId \in BackendIds :
       EncodeWithFrameId(fid, backendId)
  \/ ResetFrameOrdinals

\* a page that was constructed and not yet initialized
RegistryIdle == ServerInit /\ enableScreenshot = FALSE /\ SettleIdle

RegistrySpec == RegistryIdle /\ [][RegistryNext]_vars

----------------------------------------------------------------------------
\* Properties of the frame registry (RegistrySpec)

\* the step is a call of resetFrameOrdinals
IsReset == registry'.resets = registry.resets + 1

\* C26: whenever a navigation or reload gives a page a new top-frame id, the
\* page's frame registry is reset (only undefined -> 0 remains) before the
\* next snapshot assigns ordinals, and the registry is reset at no other time.
\* Stated here is its first half: no ordinal is asked for between a change of
\* the top frame and the reset that has to follow it.
C26_ResetOnNewTopFrame == ~registry.sightedStale

\* C27: between two resets, for any sequence of ordinalForFrameId calls: a
\* frame id keeps the ordinal of its first sighting, distinct frame ids have
\* distinct ordinals, the k-th distinct real frame id sighted gets ordinal k,
\* undefined always maps to 0, and the mapping never loses an entry; hence
\* the same (frameId, backendNodeId) is encoded to the same id in two
\* consecutive snapshots.
C27_OrdinalsAreStable ==
  /\ [](/\ Undefined \in DOMAIN registry.fidOrdinals
        /\ registry.fidOrdinals[Undefined] = 0
        /\ DOMAIN registry.fidOrdinals =
             {Undefined} \cup {registry.order[k] : k \in 1..Len(registry.order)}
        /\ \A k \in 1..Len(registry.order) :
             registry.fidOrdinals[registry.order[k]] = k
        /\ \A f, g \in DOMAIN registry.fidOrdinals :
             f # g => registry.fidOrdinals[f] # registry.fidOrdinals[g]
        /\ \A d, e \in registry.encoded :
             (d[1] = e[1] /\ d[2] = e[2]) => d[3] = e[3]
        /\ \A e \in registry.encoded :
             e[3] = EncodedId(IF e[1] = Undefined THEN 0
                              ELSE registry.fidOrdinals[e[1]], e[2]))
  /\ [][~IsReset =>
          /\ \A f \in DOMAIN registry.fidOrdinals :
               /\ f \in DOMAIN registry'.fidOrdinals
               /\ registry'.fidOrdinals[f] = registry.fidOrdinals[f]
          /\ registry.encoded \subseteq registry'.encoded]_vars

\* after a reset, three distinct frames were sighted in an order that is not
\* their order before the reset could have been, and ids were encoded for
\* the main frame and for the third frame
C27_Witness ==
  /\ registry.resets > 0
  /\ registry.order = <<"C", "A", "B">>
  /\ \E b \in BackendIds :
       /\ <<"B", b, EncodedId(3, b)>> \in registry.encoded
       /\ <<Undefined, b, EncodedId(0, b)>> \in registry.encoded

----------------------------------------------------------------------------
(* SimplePage.checkCondition: the simplified structure is a string, a      *)
(* pattern is a literal string, and a RegExp object is its source, its     *)
(* flags ("" or "g") and its lastIndex.                                    *)

Symbols == {"a", "b"}

\* the strings of at most n symbols
StringsUpTo(n) == UNION {[1..k -> Symbols] : k \in 0..n}

Structures == StringsUpTo(MaxStructure)

\* the handler answers 400 for an empty pattern
Sources == StringsUpTo(MaxSource) \ {<<>>}

Flags == {"", "g"}

NoMatch == -1

\* the pattern occurs in s at index i, counted from 0
MatchesAt(source, s, i) ==
  /\ i + Len(source) <= Len(s)
  /\ \A k \in 1..Len(source) : s[i + k] = source[k]

\* the index of the first occurrence at or after index from
MatchFrom(source, s, from) ==
  LET at == {i \in from..Len(s) : MatchesAt(source, s, i)}
  IN IF at = {} THEN NoMatch ELSE CHOOSE i \in at : \A j \in at : i <= j

\* new RegExp(pattern, flags)
NewRegExp(source, flags) == [source |-> source, flags |-> flags, lastIndex |-> 0]

\* RegExp.prototype.test: a global expression searches from its lastIndex
\* and leaves the end of the match, or 0 after a failure, in it
Test(regex, s) ==
  LET global == regex.flags = "g"
      i == MatchFrom(regex.source, s, IF global THEN regex.lastIndex ELSE 0)
  IN [matched |-> i # NoMatch,
      regex |-> IF ~global THEN regex
                ELSE [regex EXCEPT !.lastIndex =
                        IF i = NoMatch THEN 0 ELSE i + Len(regex.source)]]

\* the answer of a check is kept with the expression's pattern and flags
Answered(c, regex, matched) ==
  [c EXCEPT !.answers = @ \cup {<<regex.source, regex.flags, matched>>},
            !.checks = @ + 1]

\* the page's content changes: getPageStructure gives another string
StructureChanges(s) ==
  /\ UNCHANGED nonCondVars
  /\ s # cond.structure
  /\ cond' = [cond EXCEPT !.structure = s, !.answers = {}]

\* the caller of SimplePage.checkCondition makes a RegExp object to pass
CallerMakesRegExp(source, flags) ==
  /\ UNCHANGED nonCondVars
  /\ cond.regex # NewRegExp(source, flags)
  /\ cond' = [cond EXCEPT !.regex = NewRegExp(source, flags)]

\* checkCondition(pattern) with a string: new RegExp(pattern)
CheckConditionString(source) ==
  /\ UNCHANGED nonCondVars
  /\ cond.checks < MaxChecks
  /\ LET t == Test(NewRegExp(source, ""), cond.structure)
     IN cond' = Answered(cond, t.regex, t.matched)

\* checkCondition(pattern) with the caller's RegExp object
CheckConditionRegExp ==
  /\ UNCHANGED nonCondVars
  /\ cond.checks < MaxChecks
  /\ cond.regex.source # <<>>
  /\ LET t == Test(cond.regex, cond.structure)
     IN cond' = [Answered(cond, t.regex, t.matched) EXCEPT !.regex = t.regex]

\* POST /api/pages/:pageId/condition: the handler makes a RegExp of the
\* body's pattern and flags for this request
PostCondition(source, flags) ==
  /\ UNCHANGED nonCondVars
  /\ cond.checks < MaxChecks
  /\ LET t == Test(NewRegExp(source, flags), cond.structure)
     IN cond' = Answered(cond, t.regex, t.matched)

ConditionNext ==
  \/ \E s \in Structures : StructureChanges(s)
  \/ \E source \in Sources, flags \in Flags : CallerMakesRegExp(source, flags)
  \/ \E source \in Sources : CheckConditionString(source)
  \/ CheckConditionRegExp
  \/ \E source \in Sources, flags \in Flags : PostCondition(source, flags)

\* a page on which no condition was checked yet
ConditionIdle == ServerInit /\ enableScreenshot = FALSE /\ SettleIdle

ConditionSpec == ConditionIdle /\ [][ConditionNext]_vars

\* C30: two condition checks with the same regular expression (same pattern
\* and same flags, passed either as a string or as a RegExp object) against
\* an unchanged page structure return the same matched value.
C30_SameExpressionSameAnswer ==
  \A a1, a2 \in cond.answers :
    (a1[1] = a2[1] /\ a1[2] = a2[2]) => a1[3] = a2[3]

----------------------------------------------------------------------------
(* SimplePage.actByXPath: the dispatch on the method name and the scroll   *)
(* methods.  An argument is a string, held as its characters; a surface is *)
(* the window (the locator is the body) or a scrollable element.           *)

Digits == {"0", "1", "2"}
ArgChars == Digits \cup {"-"}

Top         == <<"t", "o", "p">>
Bottom      == <<"b", "o", "t", "t", "o", "m">>
LeftWord    == <<"l", "e", "f", "t">>
RightWord   == <<"r", "i", "g", "h", "t">>

\* args[0] of a call without arguments
NoArg == <<"undefined">>

ActArgs ==
  {NoArg, <<>>, Top, Bottom, LeftWord, RightWord}
    \cup UNION {[1..k -> ArgChars] : k \in 1..MaxArg}

Methods == {"fill", "click", "select", "selectOption", "press", "scrollY", "scrollX"}

Targets == {"body", "el"}

\* JavaScript truthiness of args[0]: undefined and "" are falsy
Truthy(arg) == arg # NoArg /\ arg # <<>>

DigitValue(c) == IF c = "0" THEN 0 ELSE IF c = "1" THEN 1 ELSE 2

RECURSIVE DigitsValue(_)
DigitsValue(ds) ==
  IF ds = <<>> THEN 0
  ELSE 10 * DigitsValue(SubSeq(ds, 1, Len(ds) - 1)) + DigitValue(ds[Len(ds)])

\* parseInt(string): an optional sign, then the longest run of digits; NaN
\* when there is no digit
ParseInt(s) ==
  LET neg == Len(s) > 0 /\ s[1] = "-"
      body == IF neg THEN Tail(s) ELSE s
      runs == {k \in 0..Len(body) : \A i \in 1..k : body[i] \in Digits}
      n == CHOOSE k \in runs : \A j \in runs : j <= k
      v == DigitsValue(SubSeq(body, 1, n))
  IN IF n = 0 THEN [nan |-> TRUE, value |-> 0]
     ELSE [nan |-> FALSE, value |-> IF neg THEN 0 - v ELSE v]

Abs(v) == IF v < 0 THEN 0 - v ELSE v

\* a positive number is taken as an absolute position too
AxisTargetAbsolute(cur, arg, startWord, endWord) ==
  IF arg = startWord THEN 0
  ELSE IF arg = endWord THEN ScrollExtent
  ELSE Abs(ParseInt(arg).value)

\* the position scrollY / scrollX ask for along their axis: the start, the
\* scroll extent, the current position plus pixels for pixels > 0, and
\* otherwise Math.abs(pixels); NaN is taken as 0 by the scroll methods
AxisTarget(cur, arg, startWord, endWord) ==
  IF arg = startWord THEN 0
  ELSE IF arg = endWord THEN ScrollExtent
  ELSE LET pixels == ParseInt(arg)
       IN IF ~pixels.nan /\ pixels.value > 0 THEN cur + pixels.value
          ELSE Abs(pixels.value)

\* the furthest a surface scrolls
MaxScroll == ScrollExtent - ClientExtent

\* the position a surface takes when it is asked for v
Clamp(v) == IF v < 0 THEN 0 ELSE IF v > MaxScroll THEN MaxScroll ELSE v

\* scrollY: el.scrollTop = ... for an element; for the body
\* window.scrollTo(0, y), which also puts the window at the left, and
\* window.scrollBy(0, px) for a positive number
ScrollY(pos, isBody, arg) ==
  LET pixels == ParseInt(arg)
      relative == arg # Top /\ arg # Bottom /\ ~pixels.nan /\ pixels.value > 0
  IN [top |-> Clamp(AxisTarget(pos.top, arg, Top, Bottom)),
      left |-> IF isBody /\ ~relative THEN 0 ELSE pos.left]

\* scrollX: el.scrollLeft = ... for an element; for the body
\* window.scrollTo(x, window.scrollY) and window.scrollBy(px, 0)
ScrollX(pos, isBody, arg) ==
  [top |-> pos.top, left |-> Clamp(AxisTarget(pos.left, arg, LeftWord, RightWord))]

\* the driver call the if-chain of actByXPath makes, or the throw of its
\* last else
Dispatch(method, arg) ==
  IF method = "fill" /\ Truthy(arg) THEN "fill"
  ELSE IF method = "click" THEN "click"
  ELSE IF method = "select" /\ Truthy(arg) THEN "selectOption"
  ELSE IF method = "press" /\ Truthy(arg) THEN "press"
  ELSE IF method = "scrollY" /\ Truthy(arg) THEN "evaluate"
  ELSE IF method = "scrollX" /\ Truthy(arg) THEN "evaluate"
  ELSE "unsupported"

\* actByXPath(xpath, method, [arg]) up to the end of its driver call
ActByXPath(target, method, arg) ==
  /\ UNCHANGED nonSurfaceVars
  /\ LET call == Dispatch(method, arg)
         pos == surface[target]
         moved == IF call # "evaluate" THEN pos
                  ELSE IF method = "scrollY" THEN ScrollY(pos, target = "body", arg)
                  ELSE ScrollX(pos, target = "body", arg)
     IN surface' = [surface EXCEPT
                      ![target] = moved,
                      !.last = [target |-> target, method |-> method, arg |-> arg,
                                call |-> call, before |-> pos]]

ActNext == \E target \in Targets, method \in Methods, arg \in ActArgs :
             ActByXPath(target, method, arg)

\* a page on which nothing was done yet
ActIdle == ServerInit /\ enableScreenshot = FALSE /\ SettleIdle

ActSpec == ActIdle /\ [][ActNext]_vars

\* the argument is the decimal form of an integer
IsInteger(arg) ==
  LET body == IF Len(arg) > 0 /\ arg[1] = "-" THEN Tail(arg) ELSE arg
  IN /\ arg # NoArg
     /\ Len(body) > 0
     /\ \A i \in 1..Len(body) : body[i] \in Digits
     /\ (Len(body) = 1 \/ body[1] # "0")

\* the last call scrolled along an axis from position was to position is,
\* with start and end the words of that axis
ScrollsAs(was, is, arg, startWord, endWord) ==
  /\ arg = startWord => is = 0
  /\ arg = endWord => is = ScrollExtent
  /\ (IsInteger(arg) /\ ParseInt(arg).value > 0) => is = was + ParseInt(arg).value
  /\ (IsInteger(arg) /\ ParseInt(arg).value < 0) => is = 0 - ParseInt(arg).value

\* the same with the surface's furthest position as the limit
ScrollsWithin(was, is, arg, startWord, endWord) ==
  /\ arg = startWord => is = 0
  /\ arg = endWord => is = MaxScroll
  /\ (IsInteger(arg) /\ ParseInt(arg).value > 0)
     => is = Min(was + ParseInt(arg).value, MaxScroll)
  /\ (IsInteger(arg) /\ ParseInt(arg).value < 0)
     => is = Min(0 - ParseInt(arg).value, MaxScroll)

\* C31: scrollY on a target surface sets its vertical scroll position to 0
\* for "top", to scrollHeight for "bottom", advances it by n pixels for a
\* positive integer n, and sets it to the absolute position n for a negative
\* integer -n; scrollX does the same horizontally with "left" and "right".
C31_ScrollSetsPosition ==
  LET l == surface.last
      pos == surface[l.target]
  IN /\ (l.method = "scrollY" /\ l.call = "evaluate")
        => ScrollsAs(l.before.top, pos.top, l.arg, Top, Bottom)
     /\ (l.method = "scrollX" /\ l.call = "evaluate")
        => ScrollsAs(l.before.left, pos.left, l.arg, LeftWord, RightWord)

\* C31, amended: scrollY sets the vertical scroll position to 0 for "top",
\* to the furthest position (scrollHeight less the viewport's height) for
\* "bottom", advances it by n pixels but not past the furthest position for
\* a positive integer n, and sets it to the smaller of n and the furthest
\* position for a negative integer -n; scrollX does the same horizontally.
C31_ScrollSetsPositionWithinExtent ==
  LET l == surface.last
      pos == surface[l.target]
  IN /\ (l.method = "scrollY" /\ l.call = "evaluate")
        => ScrollsWithin(l.before.top, pos.top, l.arg, Top, Bottom)
     /\ (l.method = "scrollX" /\ l.call = "evaluate")
        => ScrollsWithin(l.before.left, pos.left, l.arg, LeftWord, RightWord)

\* scrollY advanced an element by one pixel from position 1
C31_Witness ==
  /\ surface.last.method = "scrollY" /\ surface.last.target = "el"
  /\ surface.last.arg = <<"1">>
  /\ surface.last.before.top = 1 /\ surface.el.top = 2

\* C40: an act request with method fill and one string argument is
\* dispatched to the driver's fill for every string value, including the
\* empty string, and is never rejected as an unsupported method.
C40_FillIsDispatched ==
  (surface.last.method = "fill" /\ surface.last.arg # NoArg)
  => surface.last.call = "fill"

\* C35: in every state of a settle wait, each request id stored in
\* docByFrame is a member of inflight, and the set of ids that have a meta
\* entry equals inflight.
C35_TablesAgree ==
  \A w \in DOMAIN wait :
    /\ {d[2] : d \in wait[w].docByFrame} \subseteq wait[w].inflight
    /\ {m[1] : m \in wait[w].meta} = wait[w].inflight

----------------------------------------------------------------------------
(* src/utils/postScript.ts beside a live page.  An action is its number,   *)
(* whether it has a data file, and its postScripts; a script is the number *)
(* of the addPostScript call that added it.                                *)

\* runPostScript called without a script index
NoIndex == -2

ActionIndexes == -1..MaxRecorded
ScriptIndexes == -1..MaxAdded

\* the close action, which recordAction stores without a snapshot
CloseAction == [id |-> 0, hasData |-> FALSE, postScripts |-> <<>>]

\* the call just made
Called(call, actionIndex, scriptIndex, outcome, ran) ==
  [call |-> call, actionIndex |-> actionIndex, scriptIndex |-> scriptIndex,
   outcome |-> outcome, ran |-> ran]

\* `!actionsData.actions || actionIndex >= actionsData.actions.length` does
\* not throw; a negative index then reads a property of undefined, which does
ActionFound(list, actionIndex) == 0 <= actionIndex /\ actionIndex < Len(list)

\* Array.prototype.splice(index, 1) of a list of scripts; a negative index
\* counts from the end
SpliceScript(list, scriptIndex) ==
  Splice(list, IF scriptIndex < 0 THEN Len(list) + scriptIndex ELSE scriptIndex)

\* a default that runs the oldest script
TargetScriptOldest(list, scriptIndex) ==
  IF scriptIndex # NoIndex
  THEN IF scriptIndex < 0 THEN 0 ELSE list[scriptIndex + 1]
  ELSE list[1]

\* targetScript of runPostScript for an index below the length: the script
\* at the index, undefined (0) for a negative index, the last by default
TargetScript(list, scriptIndex) ==
  IF scriptIndex # NoIndex
  THEN IF scriptIndex < 0 THEN 0 ELSE list[scriptIndex + 1]
  ELSE list[Len(list)]

\* recordAction of the live page: push, then savePageState writes the whole
\* pageState over actions.json
RecordsAction(hasData) ==
  /\ UNCHANGED nonScriptsVars
  /\ scripts.live
  /\ scripts.recorded < MaxRecorded
  /\ LET a == [id |-> scripts.recorded + 1, hasData |-> hasData, postScripts |-> <<>>]
     IN scripts' = [scripts EXCEPT !.mem = Append(@, a),
                                   !.disk = Append(scripts.mem, a),
                                   !.recorded = @ + 1,
                                   !.last = Called("record", 0, 0, "ok", 0)]

\* SimplePage.deleteAction(index) of the live page: splice, then the whole
\* pageState is written over actions.json
DeletesAction(idx) ==
  /\ UNCHANGED nonScriptsVars
  /\ scripts.live
  /\ idx < Len(scripts.mem)
  /\ scripts' = [scripts EXCEPT
                   !.mem = Splice(@, idx),
                   !.disk = Splice(scripts.mem, idx),
                   !.attached = {t \in @ : t[1] # scripts.mem[idx + 1].id},
                   !.last = Called("delete", idx, 0, "ok", 0)]

\* SimplePage.close(): the close action is recorded and the page is gone
ClosesPage ==
  /\ UNCHANGED nonScriptsVars
  /\ scripts.live
  /\ scripts' = [scripts EXCEPT !.live = FALSE,
                                !.mem = Append(@, CloseAction),
                                !.disk = Append(scripts.mem, CloseAction),
                                !.last = Called("close", 0, 0, "ok", 0)]

\* addPostScript(pageId, actionIndex, script)
AddPostScript(actionIndex) ==
  /\ UNCHANGED nonScriptsVars
  /\ scripts.added < MaxAdded
  /\ IF ~ActionFound(scripts.disk, actionIndex)
     THEN scripts' = [scripts EXCEPT !.last = Called("add", actionIndex, 0, "throws", 0)]
     ELSE LET script == scripts.added + 1
          IN scripts' = [scripts EXCEPT
                           !.disk[actionIndex + 1].postScripts = Append(@, script),
                           !.added = script,
                           !.attached = @ \cup {<<scripts.disk[actionIndex + 1].id, script>>},
                           !.last = Called("add", actionIndex, 0, "ok", 0)]

\* removePostScript(pageId, actionIndex, scriptIndex)
RemovePostScript(actionIndex, scriptIndex) ==
  /\ UNCHANGED nonScriptsVars
  /\ IF \/ ~ActionFound(scripts.disk, actionIndex)
        \/ scripts.disk[actionIndex + 1].postScripts = <<>>
        \/ scriptIndex >= Len(scripts.disk[actionIndex + 1].postScripts)
     THEN scripts' = [scripts EXCEPT
                        !.last = Called("remove", actionIndex, scriptIndex, "throws", 0)]
     ELSE LET old == scripts.disk[actionIndex + 1].postScripts
              left == SpliceScript(old, scriptIndex)
              gone == {old[i] : i \in 1..Len(old)} \ {left[i] : i \in 1..Len(left)}
          IN scripts' = [scripts EXCEPT
                           !.disk[actionIndex + 1].postScripts = left,
                           !.attached = {t \in @ : t[2] \notin gone},
                           !.last = Called("remove", actionIndex, scriptIndex, "ok", 0)]

\* runPostScript(pageId, actionIndex, scriptIndex?): it throws without the
\* action, without scripts, for an index past the end, without a data file,
\* and when the target is undefined and is called
RunPostScript(actionIndex, scriptIndex) ==
  /\ UNCHANGED nonScriptsVars
  /\ IF \/ ~ActionFound(scripts.disk, actionIndex)
        \/ scripts.disk[actionIndex + 1].postScripts = <<>>
        \/ (scriptIndex # NoIndex
            /\ scriptIndex >= Len(scripts.disk[actionIndex + 1].postScripts))
        \/ ~scripts.disk[actionIndex + 1].hasData
        \/ TargetScript(scripts.disk[actionIndex + 1].postScripts, scriptIndex) = 0
     THEN scripts' = [scripts EXCEPT
                        !.last = Called("run", actionIndex, scriptIndex, "throws", 0)]
     ELSE scripts' = [scripts EXCEPT
                        !.last = Called("run", actionIndex, scriptIndex, "ran",
                                        TargetScript(scripts.disk[actionIndex + 1].postScripts,
                                                     scriptIndex))]

PostScriptNext ==
  \/ \E hasData \in BOOLEAN : RecordsAction(hasData)
  \/ \E idx \in 0..(MaxRecorded - 1) : DeletesAction(idx)
  \/ ClosesPage
  \/ \E actionIndex \in ActionIndexes : AddPostScript(actionIndex)
  \/ \E actionIndex \in ActionIndexes, scriptIndex \in ScriptIndexes :
       RemovePostScript(actionIndex, scriptIndex)
  \/ \E actionIndex \in ActionIndexes, scriptIndex \in ScriptIndexes \cup {NoIndex} :
       RunPostScript(actionIndex, scriptIndex)

\* a recording page that has just been created
PostScriptIdle == ServerInit /\ enableScreenshot = FALSE /\ SettleIdle

PostScriptSpec == PostScriptIdle /\ [][PostScriptNext]_vars

\* the largest of a non-empty list of numbers
Latest(list) ==
  CHOOSE x \in {list[i] : i \in 1..Len(list)} : \A i \in 1..Len(list) : list[i] <= x

\* C36: for any sequence of addPostScript and removePostScript calls on one
\* action, runPostScript without a script index runs the script currently
\* last in the action's postScripts list (the most recently added one still
\* present), and runPostScript with index i runs the script at position i of
\* that list; after removing the last script the default run uses the one
\* added before it.  (For an action that has a data file to run on.)
C36_RunPicksScript ==
  LET l == scripts.last
  IN (/\ l.call = "run"
      /\ ActionFound(scripts.disk, l.actionIndex)
      /\ scripts.disk[l.actionIndex + 1].hasData
      /\ scripts.disk[l.actionIndex + 1].postScripts # <<>>)
     => LET list == scripts.disk[l.actionIndex + 1].postScripts
        IN /\ l.scriptIndex = NoIndex
              => /\ l.outcome = "ran"
                 /\ l.ran = list[Len(list)]
                 /\ l.ran = Latest(list)
           /\ l.scriptIndex \in 0..(Len(list) - 1)
              => /\ l.outcome = "ran"
                 /\ l.ran = list[l.scriptIndex + 1]

\* two scripts were added to an action, the second was removed, and the
\* default run used the first
C36_Witness ==
  /\ scripts.last.call = "run" /\ scripts.last.scriptIndex = NoIndex
  /\ scripts.last.outcome = "ran" /\ scripts.last.ran = 1
  /\ scripts.added >= 2
  /\ ActionFound(scripts.disk, scripts.last.actionIndex)
  /\ scripts.disk[scripts.last.actionIndex + 1].postScripts = <<1>>

\* C38: a post-script added with addPostScript to an action of a page that
\* is still live stays attached to that action in actions.json after any
\* later operation on the page records a new action or deletes another
\* action.
C38_PostScriptStaysAttached ==
  scripts.live =>
    \A t \in scripts.attached :
      \E i \in 1..Len(scripts.disk) :
        /\ scripts.disk[i].id = t[1]
        /\ \E k \in 1..Len(scripts.disk[i].postScripts) :
             scripts.disk[i].postScripts[k] = t[2]

============================================================================
